---- MODULE Spec2Model ----
(***************************************************************************)
(* TransQA analysis pipeline (ferchovzla/missing-translation-app).         *)
(*                                                                         *)
(* The module holds six state machines over one set of variables:          *)
(*   Spec        TransQAAnalyzer.initialize / analyze_url and the verifier *)
(*               it calls for each block (core/analyzer.py)                *)
(*   SpecVerify  BaseVerifier.check and CompositeVerifier._check_impl with *)
(*               deduplication and merging (core/verification)             *)
(*   SpecDetect  BaseLanguageDetector.detect_block over the composite      *)
(*               detector's voting (core/language)                         *)
(*   SpecStats   TransQAAnalyzer._calculate_stats scoring                  *)
(*   SpecRetry   BaseFetcher._retry_request (core/fetchers/base.py)        *)
(*   SpecScan    the URL loop of the scan command (cli/main.py)            *)
(*                                                                         *)
(* Numbers: confidences are hundredths (90 is 0.9), detector weights are   *)
(* tenths (20 is 2.0), penalties are twentieths (10 is 0.5); a score that  *)
(* is a quotient is kept as a fraction [num, den] and compared by cross    *)
(* multiplication, so no rounding enters the model.                        *)
(***************************************************************************)
EXTENDS Integers, Sequences, FiniteSets, TLC

VARIABLES
    \* ---- TransQAAnalyzer ----
    initialized,            \* self._initialized
    verifier,               \* class of self.verifier ("None" before initialize)
    components,             \* the component attributes that are not None
    working_verifiers,      \* members of the composite verifier whose own
                            \*   initialize() succeeded in the last initialize()
    pc,                     \* position inside analyze_url
    url, target_lang,       \* arguments of the running analyze_url call
    elapsed,                \* time.time() - start_time
    result,                 \* the PageResult being built / returned
    blocks,                 \* extraction_result.blocks
    i,                      \* loop index of the block loop (0-based, as enumerate)
    all_issues,             \* all_issues
    language_distribution,  \* language_distribution (tokens per language)
    total_tokens,           \* total_tokens
    escaped,                \* exception that left analyze_url / initialize, or "none"
    caught,                 \* exception handled by the page-level handlers, or "none"
    overrun_seen,           \* history: elapsed exceeded the ceiling while a block ran
    failed_blocks,           \* history: 1-based indices of the blocks whose
                            \*   detection or verification raised
    verified_blocks,         \* history: 1-based indices of the blocks for which
                            \*   verifier.check was called
    \* ---- verifier check (SpecVerify) ----
    v_call,                 \* arguments and configuration of the last check()
    v_out,                  \* what that check() did: Returned(issues) or Raised
    \* ---- language detector (SpecDetect) ----
    d_call,                 \* configuration and component results of the last detect_block()
    d_out,                  \* what that detect_block() returned
    \* ---- statistics (SpecStats) ----
    s_issues,               \* severities of the issues of a page
    s_blocks,               \* len(extraction_result.blocks)
    s_prev,                 \* overall_score before the last issue was added
    s_score,                \* overall_score of s_issues
    s_last,                 \* severity of the issue added last, or "none"
    \* ---- BaseFetcher._retry_request (SpecRetry) ----
    r_pc,                   \* position inside _retry_request
    r_cfg,                  \* max_retries and fail_fast of the fetcher
    r_attempt,              \* attempt (the loop variable)
    r_calls,                \* history: number of times func was invoked
    r_time,                 \* time.time() - start_time
    r_last,                 \* what the last invocation of func did
    r_waits,                \* history: the wait_time of every sleep
    r_out,                  \* how the call ended: "none", "value", "FetchError"
    \* ---- cli scan (SpecScan) ----
    c_pc,                   \* position inside scan
    c_urls,                 \* urls_to_process
    c_outcomes,             \* what analyze_url does for each of the URLs
    c_idx,                  \* number of URLs the loop has gone through
    c_results               \* results

analyzerVars == <<initialized, verifier, components, working_verifiers, pc, url, target_lang, elapsed, result,
                  blocks, i, all_issues, language_distribution, total_tokens,
                  escaped, caught, overrun_seen, failed_blocks, verified_blocks>>
verifyVars == <<v_call, v_out>>
detectVars == <<d_call, d_out>>
statsVars == <<s_issues, s_blocks, s_prev, s_score, s_last>>
retryVars == <<r_pc, r_cfg, r_attempt, r_calls, r_time, r_last, r_waits, r_out>>
scanVars == <<c_pc, c_urls, c_outcomes, c_idx, c_results>>
vars == <<analyzerVars, verifyVars, detectVars, statsVars, retryVars, scanVars>>

(***************************************************************************)
(* Bounds                                                                  *)
(***************************************************************************)
MaxShortPage == 2       \* pages over every block kind have at most this many blocks
MaxLongPage == 11       \* pages of plain blocks: long enough for the
                        \*   second in-loop checkpoint (block index 10)
MaxStepTime == 1        \* longest duration of one step, in time units
max_analysis_time == 1  \* self.max_analysis_time, in time units

\* what a call did: it returned a list of issues, or it raised
Returned(issues) == [raised |-> FALSE, issues |-> issues]
Raised == [raised |-> TRUE, issues |-> <<>>]

Min(a, b) == IF a < b THEN a ELSE b
Max(a, b) == IF a > b THEN a ELSE b

RECURSIVE SeqSum(_)
SeqSum(s) == IF s = <<>> THEN 0 ELSE Head(s) + SeqSum(Tail(s))

(***************************************************************************)
(* Issue (transqa.models.issue.Issue as the core uses it).  message and    *)
(* suggestion are sets of texts: one text for an issue as a verifier       *)
(* emits it, several once issues have been joined with "; " (the join      *)
(* order of a Python set is not fixed, so the set is what is determined).  *)
(* No suggestion is the empty set.                                         *)
(***************************************************************************)
Severities == {"info", "warning", "error", "critical"}

NewIssue(type, severity, message, suggestion, xpath, start, end, confidence, rule_id) ==
    [type |-> type, severity |-> severity, message |-> {message},
     suggestion |-> suggestion, xpath |-> xpath,
     offset_start |-> start, offset_end |-> end, confidence |-> confidence,
     rule_id |-> rule_id, source_url |-> "None", detected_lang |-> "None",
     source_verifier |-> "None"]

\* str.lower() on the message texts the model uses
Lower(t) == IF t = "M" THEN "m" ELSE IF t = "N" THEN "n" ELSE t

\* message.lower() of a (possibly joined) message: the lower-cased texts with
\* the number of texts that have each lower-cased form
LowerMessage(m) ==
    {<<l, Cardinality({t \in m : Lower(t) = l})>> : l \in {Lower(t) : t \in m}}

(***************************************************************************)
(* CompositeVerifier (core/verification/composite_verifier.py)             *)
(***************************************************************************)
_get_verifier_priority(issue) ==
    CASE issue.source_verifier = "LanguageToolVerifier" -> 100
      [] issue.source_verifier = "PlaceholderValidator" -> 90
      [] issue.source_verifier = "HeuristicVerifier" -> 80
      [] OTHER -> 50

\* the grouping key of _deduplicate_issues
DedupKeyCaseSensitive(issue) ==
    <<issue.offset_start, issue.offset_end, issue.type, issue.message>>

DedupKey(issue) ==
    <<issue.offset_start, issue.offset_end, issue.type, LowerMessage(issue.message)>>

\* key=lambda x: (x.confidence, self._get_verifier_priority(x)), compared as tuples
BestKeyLeqConfidenceOnly(a, b) == a.confidence <= b.confidence

BestKeyLeq(a, b) ==
    \/ a.confidence < b.confidence
    \/ /\ a.confidence = b.confidence
       /\ _get_verifier_priority(a) <= _get_verifier_priority(b)

\* max(group, key=...): the first issue of the group whose key is maximal
BestIssue(group) ==
    LET best == CHOOSE k \in 1..Len(group) :
                    /\ \A j \in 1..Len(group) : BestKeyLeq(group[j], group[k])
                    /\ \A j \in 1..(k - 1) : ~BestKeyLeq(group[k], group[j])
    IN  group[best]

\* one group of _deduplicate_issues: the kept issue, with the suggestions of
\* the dropped ones joined in when there is more than one distinct suggestion
DedupGroup(group) ==
    IF Len(group) = 1 THEN group[1]
    ELSE LET best == BestIssue(group)
             others == SelectSeq(group, LAMBDA g : g # best)
             suggestions ==
                 best.suggestion \cup
                 UNION {others[k].suggestion : k \in 1..Len(others)}
             distinct ==
                 (IF best.suggestion # {} THEN {best.suggestion} ELSE {}) \cup
                 {others[k].suggestion : k \in
                     {j \in 1..Len(others) : /\ others[j].suggestion # {}
                                             /\ others[j].suggestion # best.suggestion}}
         IN  IF Cardinality(distinct) > 1
             THEN [best EXCEPT !.suggestion = suggestions]
             ELSE best

\* the keys of issues in order of first appearance (dict insertion order)
RECURSIVE KeysInOrder(_, _)
KeysInOrder(issues, seen) ==
    IF issues = <<>> THEN <<>>
    ELSE IF DedupKey(Head(issues)) \in seen THEN KeysInOrder(Tail(issues), seen)
    ELSE <<DedupKey(Head(issues))>> \o
         KeysInOrder(Tail(issues), seen \cup {DedupKey(Head(issues))})

_deduplicate_issues(issues) ==
    LET keys == KeysInOrder(issues, {})
    IN  [k \in 1..Len(keys) |->
            DedupGroup(SelectSeq(issues, LAMBDA x : DedupKey(x) = keys[k]))]

\* max(group, key=lambda x: x.confidence)
ConfidenceLeq(a, b) == a.confidence <= b.confidence

\* the first issue of the group whose confidence is maximal
BaseIssueFirst(group) == group[1]

BaseIssue(group) ==
    LET best == CHOOSE k \in 1..Len(group) :
                    /\ \A j \in 1..Len(group) : ConfidenceLeq(group[j], group[k])
                    /\ \A j \in 1..(k - 1) : ~ConfidenceLeq(group[k], group[j])
    IN  group[best]

_merge_issue_group(group) ==
    IF Len(group) = 1 THEN group[1]
    ELSE LET base == BaseIssue(group)
             idx == 1..Len(group)
             min_start == CHOOSE m \in {group[k].offset_start : k \in idx} :
                              \A k \in idx : m <= group[k].offset_start
             max_end == CHOOSE m \in {group[k].offset_end : k \in idx} :
                              \A k \in idx : m >= group[k].offset_end
             messages == {group[k].message : k \in idx}
             suggestions == UNION {group[k].suggestion : k \in idx}
         IN  [base EXCEPT
                 !.offset_start = min_start,
                 !.offset_end = max_end,
                 !.message = IF Cardinality(messages) > 1 THEN UNION messages ELSE @,
                 !.suggestion = IF suggestions # {} THEN suggestions ELSE @]

\* key=lambda x: (x.offset_start, x.offset_end)
PositionLeq(a, b) ==
    \/ a.offset_start < b.offset_start
    \/ a.offset_start = b.offset_start /\ a.offset_end <= b.offset_end

\* issues.sort(key=...) is stable: each issue goes after the issues whose
\* key is not greater than its own
RECURSIVE InsertByPosition(_, _)
InsertByPosition(x, s) ==
    IF s = <<>> THEN <<x>>
    ELSE IF PositionLeq(Head(s), x) THEN <<Head(s)>> \o InsertByPosition(x, Tail(s))
    ELSE <<x>> \o s

RECURSIVE SortByPosition(_)
SortByPosition(s) ==
    IF s = <<>> THEN <<>>
    ELSE InsertByPosition(s[Len(s)], SortByPosition(SubSeq(s, 1, Len(s) - 1)))

MergeProximity == 50    \* abs(start - last start) < 50

\* the loop of _merge_overlapping_issues over the sorted issues: merged is
\* the output so far, current_group the group being collected
RECURSIVE MergeLoop(_, _, _)
MergeLoop(rest, merged, current_group) ==
    IF rest = <<>>
    THEN IF current_group = <<>> THEN merged
         ELSE Append(merged, _merge_issue_group(current_group))
    ELSE LET issue == Head(rest)
         IN  IF current_group = <<>> THEN MergeLoop(Tail(rest), merged, <<issue>>)
             ELSE LET last_issue == current_group[Len(current_group)]
                      d == issue.offset_start - last_issue.offset_start
                  IN  IF /\ issue.offset_start <= last_issue.offset_end
                         /\ issue.type = last_issue.type
                         /\ (IF d < 0 THEN -d ELSE d) < MergeProximity
                      THEN MergeLoop(Tail(rest), merged, Append(current_group, issue))
                      ELSE MergeLoop(Tail(rest),
                                     Append(merged, _merge_issue_group(current_group)),
                                     <<issue>>)

_merge_overlapping_issues(issues) ==
    IF issues = <<>> THEN issues
    ELSE MergeLoop(SortByPosition(issues), <<>>, <<>>)

\* the verifier loop of _check_impl: names[k] is the class of verifier k and
\* outcomes[k] what its check() did (a list of issues, or Raised); a verifier
\* that raised is logged and contributes nothing
RECURSIVE CollectIssuesFailFast(_, _)
CollectIssuesFailFast(names, outcomes) ==
    IF names = <<>> \/ Head(outcomes).raised THEN <<>>
    ELSE [k \in 1..Len(Head(outcomes).issues) |->
             IF Head(outcomes).issues[k].source_verifier = "None"
             THEN [Head(outcomes).issues[k] EXCEPT !.source_verifier = Head(names)]
             ELSE Head(outcomes).issues[k]]
         \o CollectIssuesFailFast(Tail(names), Tail(outcomes))

RECURSIVE CollectIssues(_, _)
CollectIssues(names, outcomes) ==
    IF names = <<>> THEN <<>>
    ELSE LET tagged ==
                 IF Head(outcomes).raised THEN <<>>
                 ELSE [k \in 1..Len(Head(outcomes).issues) |->
                          IF Head(outcomes).issues[k].source_verifier = "None"
                          THEN [Head(outcomes).issues[k] EXCEPT
                                   !.source_verifier = Head(names)]
                          ELSE Head(outcomes).issues[k]]
         IN  tagged \o CollectIssues(Tail(names), Tail(outcomes))

\* the verifiers whose check() the loop of _check_impl calls, in call order:
\* the except clause is inside the loop, so a verifier that raises does not
\* keep the following ones from being called
RECURSIVE CalledVerifiers(_, _)
CalledVerifiers(names, outcomes) ==
    IF names = <<>> THEN <<>>
    ELSE <<Head(names)>> \o CalledVerifiers(Tail(names), Tail(outcomes))

CompositeCheckImpl(names, outcomes, deduplicate_issues, merge_overlapping) ==
    LET collected == CollectIssues(names, outcomes)
        deduped == IF deduplicate_issues THEN _deduplicate_issues(collected)
                   ELSE collected
    IN  IF merge_overlapping THEN _merge_overlapping_issues(deduped) ELSE deduped

(***************************************************************************)
(* Texts.  A text is described by what the code looks at: its length, the  *)
(* length once stripped, the length left once URLs or e-mail addresses are *)
(* removed too, its number of whitespace-separated tokens, the curly-brace *)
(* placeholders in it (position and content, the content a sequence of     *)
(* "a" letter, "1" digit, " " space) and the issues the LanguageTool       *)
(* backend reports for it.                                                 *)
(***************************************************************************)
Text(len, stripped, bare, tokens, placeholders, lt) ==
    [len |-> len, stripped |-> stripped, bare |-> bare, tokens |-> tokens,
     placeholders |-> placeholders, lt |-> lt]

(***************************************************************************)
(* BaseVerifier.check and the three verifiers (core/verification)          *)
(***************************************************************************)
min_text_length == 3    \* BaseVerifier.min_text_length default

\* BaseVerifier._preprocess_text: TRUE when it returns "" (nothing to check)
PreprocessedEmpty(text) ==
    \/ text.stripped = 0
    \/ text.stripped < min_text_length
    \/ text.bare < min_text_length

ignore_rules == {}      \* BaseVerifier.ignore_rules default
enable_rules == {}      \* BaseVerifier.enable_rules default

_should_include_issue(issue) ==
    /\ ~(issue.rule_id # "None" /\ issue.rule_id \in ignore_rules)
    /\ ~(enable_rules # {} /\ issue.rule_id # "None" /\ issue.rule_id \notin enable_rules)

\* BaseVerifier.check around the outcome of _check_impl; xpath is
\* context.xpath.  Nothing in check() catches what _check_impl raises.
BaseCheck(text, impl, xpath) ==
    IF text.len = 0 \/ text.stripped < min_text_length THEN Returned(<<>>)
    ELSE IF PreprocessedEmpty(text) THEN Returned(<<>>)
    ELSE IF impl.raised THEN Raised
    ELSE LET kept == SelectSeq(impl.issues, _should_include_issue)
         IN  Returned([k \in 1..Len(kept) |-> [kept[k] EXCEPT !.xpath = xpath]])

\* rule['valid_content'] of curly_braces: ^[a-zA-Z_][a-zA-Z0-9_]*$
ValidContent(content) ==
    /\ content # <<>>
    /\ content[1] = "a"
    /\ \A k \in 1..Len(content) : content[k] \in {"a", "1"}

\* not content.strip()
StripsToEmpty(content) == \A k \in 1..Len(content) : content[k] = " "

\* PlaceholderValidator._validate_placeholder_syntax for a curly_braces
\* placeholder {content} found at position pos.  The first test needs a
\* non-empty content ("... and content and not ...match(content)").
SyntaxGuard(content) == content # <<>> /\ ~ValidContent(content)

_validate_placeholder_syntax(placeholder) ==
    LET content == placeholder.content
        start == placeholder.pos
        end == placeholder.pos + Len(content) + 2
    IN  IF SyntaxGuard(content)
        THEN IF StripsToEmpty(content)
             THEN <<NewIssue("placeholder", "error", "Empty placeholder",
                             {"Add variable name"}, 0, start, end, 90,
                             "EMPTY_PLACEHOLDER")>>
             ELSE IF content[1] # "a"
             THEN <<NewIssue("placeholder", "error", "Invalid variable name",
                             {"Start with letter"}, 0, start, end, 80,
                             "INVALID_VARIABLE_NAME")>>
             ELSE <<>>
        ELSE <<>>

RECURSIVE _validate_placeholders(_)
_validate_placeholders(placeholders) ==
    IF placeholders = <<>> THEN <<>>
    ELSE _validate_placeholder_syntax(Head(placeholders)) \o
         _validate_placeholders(Tail(placeholders))

\* PlaceholderValidator._check_impl on a text whose only placeholders are
\* curly-brace ones and that has no numbers, currency or repeated spaces
PlaceholderCheckImpl(text) == Returned(_validate_placeholders(text.placeholders))

\* HeuristicVerifier._check_impl ends with _check_consistency_issues, which
\* reads the name "context" that it does not have: NameError on every call
HeuristicCheckImpl(text) == Raised

\* LanguageToolVerifier._check_impl: the converted matches of the backend;
\* its own try/except turns a failing backend into []
LanguageToolCheckImpl(text) == Returned(text.lt)

VerifierClasses ==
    {"LanguageToolVerifier", "PlaceholderValidator", "HeuristicVerifier",
     "CompositeVerifier"}

\* the verifiers VerifierFactory._create_composite_verifier puts in the list
CompositeMembers == <<"LanguageToolVerifier", "PlaceholderValidator", "HeuristicVerifier">>

SimpleCheck(cls, text, xpath) ==
    CASE cls = "LanguageToolVerifier" -> BaseCheck(text, LanguageToolCheckImpl(text), xpath)
      [] cls = "PlaceholderValidator" -> BaseCheck(text, PlaceholderCheckImpl(text), xpath)
      [] cls = "HeuristicVerifier" -> BaseCheck(text, HeuristicCheckImpl(text), xpath)

\* verifier.check(text, target_lang, context) for a verifier of class cls;
\* the composite runs with both post-processing steps as configured
VerifierCheck(cls, text, xpath, deduplicate_issues, merge_overlapping) ==
    IF cls = "CompositeVerifier"
    THEN BaseCheck(text,
             Returned(CompositeCheckImpl(
                 CompositeMembers,
                 [k \in 1..Len(CompositeMembers) |->
                     SimpleCheck(CompositeMembers[k], text, xpath)],
                 deduplicate_issues, merge_overlapping)),
             xpath)
    ELSE SimpleCheck(cls, text, xpath)

(***************************************************************************)
(* TransQAAnalyzer._calculate_stats (core/analyzer.py)                     *)
(***************************************************************************)
LangCodes == {"es", "en", "nl", "unknown"}
IssueTypes ==
    {"language_leak", "grammar", "spelling", "style", "placeholder",
     "punctuation", "capitalization", "consistency"}

CriticalPenalty == 10   \* 0.5 in twentieths
ErrorPenalty == 4       \* 0.2 in twentieths
WarningPenalty == 1     \* 0.05 in twentieths
PenaltyUnit == 20       \* twentieths in 1.0

CountSeverity(issues, sev) ==
    Cardinality({k \in 1..Len(issues) : issues[k].severity = sev})
CountType(issues, type) ==
    Cardinality({k \in 1..Len(issues) : issues[k].type = type})

\* penalty, in twentieths
PenaltyCountingInfo(issues) ==
    CountSeverity(issues, "critical") * CriticalPenalty
    + CountSeverity(issues, "error") * ErrorPenalty
    + CountSeverity(issues, "warning") * WarningPenalty
    + CountSeverity(issues, "info") * WarningPenalty

Penalty(issues) ==
    CountSeverity(issues, "critical") * CriticalPenalty
    + CountSeverity(issues, "error") * ErrorPenalty
    + CountSeverity(issues, "warning") * WarningPenalty

\* max(0.0, 1.0 - min(penalty / max(1, len(blocks)), 1.0)) as a fraction
OverallScoreUnnormalized(issues, nblocks) ==
    [num |-> PenaltyUnit - Min(Penalty(issues), PenaltyUnit), den |-> PenaltyUnit]

OverallScore(issues, nblocks) ==
    LET den == PenaltyUnit * Max(1, nblocks)
    IN  [num |-> den - Min(Penalty(issues), den), den |-> den]

FracLess(a, b) == a.num * b.den < b.num * a.den
FracEq(a, b) == a.num * b.den = b.num * a.den

\* stats of a PageResult that _calculate_stats has not filled in
DefaultStats ==
    [computed |-> FALSE, total_tokens |-> 0, total_blocks |-> 0,
     language_distribution |-> [l \in LangCodes |-> [num |-> 0, den |-> 1]],
     issues_by_type |-> [t \in IssueTypes |-> 0],
     issues_by_severity |-> [v \in Severities |-> 0],
     overall_score |-> [num |-> 0, den |-> 1],
     language_purity_score |-> [num |-> 0, den |-> 1]]

_calculate_stats(nblocks, issues, distribution, tokens, target) ==
    LET lang_percentages ==
            [l \in LangCodes |->
                IF tokens > 0 THEN [num |-> distribution[l] * 100, den |-> tokens]
                ELSE [num |-> 0, den |-> 1]]
        target_lang_percentage ==
            IF target \in LangCodes THEN lang_percentages[target]
            ELSE [num |-> 0, den |-> 1]
    IN  [computed |-> TRUE, total_tokens |-> tokens, total_blocks |-> nblocks,
         language_distribution |-> lang_percentages,
         issues_by_type |-> [t \in IssueTypes |-> CountType(issues, t)],
         issues_by_severity |-> [v \in Severities |-> CountSeverity(issues, v)],
         overall_score |-> OverallScore(issues, nblocks),
         language_purity_score |->
             [num |-> target_lang_percentage.num,
              den |-> target_lang_percentage.den * 100]]

(***************************************************************************)
(* TransQAAnalyzer.analyze_url (core/analyzer.py)                          *)
(***************************************************************************)
CheckEvery == 10        \* "if i % 10 == 0"
VerifySizeCap == 1000   \* "if len(block.text) < 1000"
UncertainBelow == 70    \* "lang_result.confidence < 0.7"

Exceptions ==
    {"TimeoutError", "FetchError", "ExtractionError", "LanguageDetectionError",
     "VerificationError", "Exception"}

\* _check_timeout: TRUE when it raises TimeoutError
_check_timeoutNever(time, max_time) == FALSE

_check_timeout(time, max_time) == time > max_time

\* which except clause of analyze_url takes an exception raised in the try
PageHandlerNoCatchAll(e) ==
    CASE e = "TimeoutError" -> "timeout"
      [] e = "FetchError" -> "fetch"
      [] e \in {"ExtractionError", "LanguageDetectionError", "VerificationError"} -> "analysis"
      [] OTHER -> "propagate"

PageHandler(e) ==
    CASE e = "TimeoutError" -> "timeout"
      [] e = "FetchError" -> "fetch"
      [] e \in {"ExtractionError", "LanguageDetectionError", "VerificationError"} -> "analysis"
      [] OTHER -> "unexpected"

\* the text each handler puts in front of str(e)
HandlerMessage(handler) ==
    CASE handler = "timeout" -> "Analysis timed out after"
      [] handler = "fetch" -> "Failed to fetch content"
      [] handler = "analysis" -> "Analysis failed"
      [] OTHER -> "Unexpected error after"

ContainsTimedOut(message) == "Analysis timed out after" \in message

ErrorIssueWithoutUrl(handler, u) ==
    NewIssue("grammar", "critical", HandlerMessage(handler), {}, 0, 0, 0, 100, "None")

ErrorIssue(handler, u) ==
    [NewIssue("grammar", "critical", HandlerMessage(handler), {}, 0, 0, 0, 100, "None")
        EXCEPT !.source_url = u]

\* "result.issues = [error_issue]" of every handler
HandlerIssuesKeepingCollected(collected, error_issue) == Append(collected, error_issue)

HandlerIssues(collected, error_issue) == <<error_issue>>

\* the except clause of the per-block try: log and go on with the next block
OnBlockErrorReraise(e) == "raise"

OnBlockError(e) == "continue"

NewPageResult(u, t) ==
    [url |-> u, target_lang |-> t, issues |-> <<>>, stats |-> DefaultStats]

NoResult == NewPageResult("None", "None")

Det(lang, conf) == [raised |-> FALSE, lang |-> lang, conf |-> conf]
DetRaised == [raised |-> TRUE, lang |-> "unknown", conf |-> 0]
\* a block of the page with what the components do for it: det is the
\* answer of language_detector.detect_block, verifier_raises says that
\* verifier.check fails instead of returning its list
Block(text, det, verifier_raises) ==
    [text |-> text, det |-> det, verifier_raises |-> verifier_raises]

\* str.upper() on a language code
Upper(code) ==
    CASE code = "es" -> "ES"
      [] code = "en" -> "EN"
      [] code = "nl" -> "NL"
      [] OTHER -> code

\* the language_leak issue of lines 236-249 for block k (xpath k)
LeakIssueAsWarning(k, block, u, target) ==
    [NewIssue("language_leak", "warning",
              "Text appears to be in " \o Upper(block.det.lang) \o " instead of "
                  \o Upper(target),
              {}, k, 100 * k, 100 * k + block.text.len, block.det.conf, "None")
        EXCEPT !.source_url = u, !.detected_lang = block.det.lang]

LeakIssue(k, block, u, target) ==
    [NewIssue("language_leak", "error",
              "Text appears to be in " \o Upper(block.det.lang) \o " instead of "
                  \o Upper(target),
              {}, k, 100 * k, 100 * k + block.text.len, block.det.conf, "None")
        EXCEPT !.source_url = u, !.detected_lang = block.det.lang]

\* whether the verifier is called for a block whose language was detected
RunsVerifierAlways(block, target) == TRUE

RunsVerifier(block, target) ==
    /\ block.det.lang = target \/ block.det.conf < UncertainBelow
    /\ block.text.len < VerifySizeCap

\* the body of the block loop for block k: the new all_issues,
\* language_distribution and total_tokens, whether the per-block except
\* clause was entered and whether verifier.check was called
AnalyzeBlock(k, block, cls, u, target, issues, distribution, tokens) ==
    LET same == [issues |-> issues, distribution |-> distribution,
                 tokens |-> tokens, failed |-> FALSE, verified |-> FALSE]
    IN  IF block.text.stripped = 0 THEN same
        ELSE LET counted == [same EXCEPT !.tokens = tokens + block.text.tokens]
             IN  IF block.det.raised THEN [counted EXCEPT !.failed = TRUE]
                 ELSE LET lang == block.det.lang
                          told == [counted EXCEPT
                                      !.distribution[lang] = @ + block.text.tokens]
                          leak == IF lang # target
                                  THEN <<LeakIssue(k, block, u, target)>>
                                  ELSE <<>>
                          check == IF block.verifier_raises THEN Raised
                                   ELSE VerifierCheck(cls, block.text, k, TRUE, TRUE)
                          stamped == [j \in 1..Len(check.issues) |->
                                         [check.issues[j] EXCEPT
                                             !.source_url = u, !.xpath = k]]
                      IN  IF lang = "unknown" THEN told
                          ELSE IF ~RunsVerifier(block, target)
                          THEN [told EXCEPT !.issues = issues \o leak]
                          ELSE IF check.raised
                          THEN [told EXCEPT !.issues = issues \o leak, !.failed = TRUE,
                                            !.verified = TRUE]
                          ELSE [told EXCEPT !.issues = issues \o leak \o stamped,
                                            !.verified = TRUE]

(***************************************************************************)
(* Inputs of the analyzer: requests, verifier configurations and the pages *)
(* the extractor can return                                                *)
(***************************************************************************)
Requests ==
    {[url |-> "https://a.example/", target_lang |-> "es"],
     [url |-> "https://b.example/", target_lang |-> "en"]}

\* what VerifierFactory.create_from_config hands to the analyzer: the
\* heuristic and placeholder verifiers are always available, so "auto"
\* always builds the composite
VerifierConfigs == {"CompositeVerifier"}

BlankText == Text(3, 0, 0, 0, <<>>, <<>>)
PlainText == Text(40, 40, 40, 6, <<>>, <<>>)
\* "... {} ..." and "... { } ..."
EmptyPlaceholderText == Text(40, 40, 40, 6, <<[pos |-> 5, content |-> <<>>]>>, <<>>)
BlankPlaceholderText == Text(40, 40, 40, 6, <<[pos |-> 5, content |-> <<" ">>]>>, <<>>)
\* a text in which the LanguageTool backend finds a misspelt word
TypoText ==
    Text(40, 40, 40, 6, <<>>,
         <<NewIssue("spelling", "error", "Possible spelling mistake", {"fix"},
                    0, 8, 12, 90, "MORFOLOGIK_RULE")>>)
LargeText == Text(1000, 1000, 1000, 150, <<>>, <<>>)

ShortKinds ==
    {Block(BlankText, Det("unknown", 0), FALSE),
     Block(PlainText, Det("es", 90), FALSE),
     Block(PlainText, Det("en", 90), FALSE),
     Block(PlainText, Det("en", 60), FALSE),
     Block(PlainText, Det("unknown", 0), FALSE),
     Block(PlainText, DetRaised, FALSE),
     Block(EmptyPlaceholderText, Det("es", 90), FALSE),
     Block(BlankPlaceholderText, Det("es", 90), FALSE),
     Block(TypoText, Det("es", 90), FALSE),
     Block(LargeText, Det("es", 90), FALSE),
     Block(PlainText, Det("es", 90), TRUE),
     Block(PlainText, Det("en", 60), TRUE)}

LongKinds == {Block(PlainText, Det("es", 90), FALSE)}

\* the page of the end-to-end scenario: clean target-language text, a
\* foreign sentence detected with confidence 0.9, a text containing "{}"
ScenarioPage ==
    <<Block(PlainText, Det("es", 90), FALSE),
      Block(PlainText, Det("en", 90), FALSE),
      Block(EmptyPlaceholderText, Det("es", 90), FALSE)>>

Pages ==
    UNION {[1..n -> ShortKinds] : n \in 0..MaxShortPage}
    \cup [1..MaxLongPage -> LongKinds]
    \cup {ScenarioPage}

Tick(d) == Min(elapsed + d, max_analysis_time + 1)

(***************************************************************************)
(* TransQAAnalyzer.initialize and the initialize() of the composites       *)
(***************************************************************************)
MaxComponents == 2      \* a composite detector is built of at most this many detectors

ComponentNames == <<"fetcher", "extractor", "language_detector", "verifier">>

\* the steps of the try of initialize(), in order: each factory call, each
\* component's initialize(), and the 10 s check after the fetcher
InitSteps ==
    <<"fetcher.create", "fetcher.initialize", "timeout",
      "extractor.create", "extractor.initialize",
      "language_detector.create", "language_detector.initialize",
      "verifier.create", "verifier.initialize">>

\* the steps that fail as they please; the initialize() of the language
\* detector and of the verifier are modelled below
InitFailures ==
    {"fetcher.create", "fetcher.initialize", "timeout", "extractor.create",
     "extractor.initialize", "language_detector.create", "verifier.create"}

min_detectors == 1      \* CompositeLanguageDetector.min_detectors

\* CompositeLanguageDetector.initialize: TRUE when it raises RuntimeError;
\* initialized_count is the number of its detectors whose initialize()
\* did not raise
CompositeDetectorInitialize(initialized_count) == initialized_count < min_detectors

\* CompositeVerifier.initialize: TRUE when it raises; members_ok are the
\* verifiers whose initialize() did not raise.  Every failure is logged and
\* the count is only reported.
CompositeVerifierInitialize(members_ok) == FALSE

StepIndex(step) == CHOOSE k \in 1..Len(InitSteps) : InitSteps[k] = step

\* the first step of initialize() that raises, 0 when none does
FirstFailure(failing, initialized_count, members_ok) ==
    LET fails == {k \in 1..Len(InitSteps) :
                     \/ InitSteps[k] = failing
                     \/ /\ InitSteps[k] = "language_detector.initialize"
                        /\ CompositeDetectorInitialize(initialized_count)
                     \/ /\ InitSteps[k] = "verifier.initialize"
                        /\ CompositeVerifierInitialize(members_ok)}
    IN  IF fails = {} THEN 0 ELSE CHOOSE k \in fails : \A j \in fails : k <= j

\* the verifiers of the composite whose initialize() succeeded: none, the
\* two that need no backend, all three
MembersOk ==
    {{}, {"PlaceholderValidator", "HeuristicVerifier"},
     {CompositeMembers[k] : k \in 1..Len(CompositeMembers)}}

\* what the components do in one run of initialize(); what happens after
\* the first failing step is not part of a run
InitRuns ==
    {run \in [failing : {"none"} \cup InitFailures,
              initialized_count : 0..MaxComponents,
              members_ok : MembersOk] :
        /\ (FirstFailure(run.failing, run.initialized_count, run.members_ok) # 0
               => run.members_ok = {})
        /\ (run.failing \in {InitSteps[k] :
                                k \in 1..(StepIndex("language_detector.initialize") - 1)}
               => run.initialized_count = MaxComponents)}

\* the run that is not made: the analyzer is initialized already
NoInitRun == [failing |-> "none", initialized_count |-> MaxComponents, members_ok |-> {}]

\* "self._initialized = True" is the last statement of the try
InitializedFlagAlways(raised) == TRUE

InitializedFlag(raised) == ~raised

\* initialize() from a state that is not initialized: an attribute is
\* assigned when its factory call returned
initialize(cls, failing, initialized_count, members_ok) ==
    IF initialized
    THEN [raised |-> FALSE, initialized |-> TRUE, verifier |-> verifier,
          components |-> components, working_verifiers |-> working_verifiers]
    ELSE LET first == FirstFailure(failing, initialized_count, members_ok)
             reached(step) == first = 0 \/ StepIndex(step) < first
             assigned == {c \in {ComponentNames[k] : k \in 1..Len(ComponentNames)} :
                             reached(c \o ".create")}
         IN  [raised |-> first # 0,
              initialized |-> InitializedFlag(first # 0),
              verifier |-> IF "verifier" \in assigned THEN cls ELSE verifier,
              components |-> components \cup assigned,
              working_verifiers |->
                  IF first = 0 \/ first > StepIndex("verifier.initialize")
                  THEN members_ok ELSE working_verifiers]

(***************************************************************************)
(* Actions of the analyzer                                                 *)
(***************************************************************************)
AtRest == pc \in {"idle", "done", "raised"}

\* no call of analyze_url is running or has returned: the PageResult and
\* the locals of an earlier call are the caller's and are not kept
NoCall ==
    /\ result' = NoResult
    /\ elapsed' = 0
    /\ blocks' = <<>>
    /\ i' = 0
    /\ all_issues' = <<>>
    /\ language_distribution' = [l \in LangCodes |-> 0]
    /\ total_tokens' = 0
    /\ caught' = "none"
    /\ overrun_seen' = FALSE
    /\ failed_blocks' = {}
    /\ verified_blocks' = {}

\* initialize() on an analyzer that is not initialized (on an initialized
\* one it returns at once and nothing changes)
Initialize ==
    /\ AtRest
    /\ ~initialized
    /\ \E cls \in VerifierConfigs, run \in InitRuns :
          LET r == initialize(cls, run.failing, run.initialized_count, run.members_ok)
          IN  /\ initialized' = r.initialized
              /\ verifier' = r.verifier
              /\ components' = r.components
              /\ working_verifiers' = r.working_verifiers
              /\ escaped' = IF r.raised THEN "InitError" ELSE "none"
              /\ pc' = IF r.raised THEN "raised" ELSE "idle"
    /\ url' = "None"
    /\ target_lang' = "None"
    /\ NoCall
    /\ UNCHANGED <<verifyVars, detectVars, statsVars, retryVars, scanVars>>

\* cleanup(): every component's cleanup (failures are logged), then
\* self._initialized = False; the component attributes stay
Cleanup ==
    /\ AtRest
    /\ initialized' = FALSE
    /\ pc' = "idle"
    /\ escaped' = "none"
    /\ url' = "None"
    /\ target_lang' = "None"
    /\ NoCall
    /\ UNCHANGED <<verifier, components, working_verifiers>>
    /\ UNCHANGED <<verifyVars, detectVars, statsVars, retryVars, scanVars>>

\* analyze_url up to the try: ensure_initialized (which runs initialize()
\* when the analyzer is not initialized and lets its exception through),
\* start_time, PageResult(...)
AnalyzeUrl ==
    /\ AtRest
    /\ \E req \in Requests, cls \in VerifierConfigs,
          run \in IF initialized THEN {NoInitRun} ELSE InitRuns :
          LET r == initialize(cls, run.failing, run.initialized_count, run.members_ok)
          IN  /\ url' = req.url
              /\ target_lang' = req.target_lang
              /\ initialized' = r.initialized
              /\ verifier' = r.verifier
              /\ components' = r.components
              /\ working_verifiers' = r.working_verifiers
              /\ IF r.raised
                 THEN /\ escaped' = "InitError"
                      /\ pc' = "raised"
                      /\ NoCall
                 ELSE /\ result' = NewPageResult(req.url, req.target_lang)
                      /\ elapsed' = 0
                      /\ blocks' = <<>>
                      /\ i' = 0
                      /\ all_issues' = <<>>
                      /\ language_distribution' = [l \in LangCodes |-> 0]
                      /\ total_tokens' = 0
                      /\ escaped' = "none"
                      /\ caught' = "none"
                      /\ overrun_seen' = FALSE
                      /\ failed_blocks' = {}
                      /\ verified_blocks' = {}
                      /\ pc' = "fetch"
    /\ UNCHANGED <<verifyVars, detectVars, statsVars, retryVars, scanVars>>

\* an exception e raised inside the try of analyze_url
Handle(e) ==
    LET handler == PageHandler(e)
    IN  IF handler = "propagate"
        THEN /\ escaped' = e
             /\ pc' = "raised"
             /\ UNCHANGED <<result, caught>>
        ELSE /\ result' = [result EXCEPT
                              !.issues = HandlerIssues(all_issues, ErrorIssue(handler, url))]
             /\ caught' = e
             /\ pc' = "done"
             /\ UNCHANGED escaped

\* step 1: checkpoint, then the fetcher
Fetch ==
    /\ pc = "fetch"
    /\ IF _check_timeout(elapsed, max_analysis_time)
       THEN Handle("TimeoutError") /\ UNCHANGED elapsed
       ELSE \E outcome \in {"ok"} \cup Exceptions, d \in 0..MaxStepTime :
               /\ elapsed' = Tick(d)
               /\ IF outcome = "ok"
                  THEN pc' = "extract" /\ UNCHANGED <<result, caught, escaped>>
                  ELSE Handle(outcome)
    /\ UNCHANGED <<initialized, verifier, components, working_verifiers,
                   url, target_lang, blocks, i, all_issues,
                   language_distribution, total_tokens, overrun_seen, failed_blocks, verified_blocks>>
    /\ UNCHANGED <<verifyVars, detectVars, statsVars, retryVars, scanVars>>

\* step 2: checkpoint, then the extractor; success=False becomes ExtractionError
Extract ==
    /\ pc = "extract"
    /\ IF _check_timeout(elapsed, max_analysis_time)
       THEN Handle("TimeoutError") /\ UNCHANGED <<elapsed, blocks>>
       ELSE \E d \in 0..MaxStepTime :
               /\ elapsed' = Tick(d)
               /\ \/ \E page \in Pages :
                        /\ blocks' = page
                        /\ pc' = "start_blocks"
                        /\ UNCHANGED <<result, caught, escaped>>
                  \/ \E e \in {"ExtractionError", "Exception"} :
                        Handle(e) /\ UNCHANGED blocks
    /\ UNCHANGED <<initialized, verifier, components, working_verifiers,
                   url, target_lang, i, all_issues,
                   language_distribution, total_tokens, overrun_seen, failed_blocks, verified_blocks>>
    /\ UNCHANGED <<verifyVars, detectVars, statsVars, retryVars, scanVars>>

\* step 3, before the loop: the locals and the checkpoint of line 203
StartBlocks ==
    /\ pc = "start_blocks"
    /\ IF _check_timeout(elapsed, max_analysis_time)
       THEN Handle("TimeoutError")
       ELSE /\ pc' = IF Len(blocks) = 0 THEN "stats" ELSE "loop"
            /\ UNCHANGED <<result, caught, escaped>>
    /\ UNCHANGED <<initialized, verifier, components, working_verifiers,
                   url, target_lang, elapsed, blocks, i,
                   all_issues, language_distribution, total_tokens, overrun_seen,
                   failed_blocks, verified_blocks>>
    /\ UNCHANGED <<verifyVars, detectVars, statsVars, retryVars, scanVars>>

\* one iteration of the block loop, for block i+1
BlockStep ==
    /\ pc = "loop"
    /\ i < Len(blocks)
    /\ IF i % CheckEvery = 0 /\ _check_timeout(elapsed, max_analysis_time)
       THEN /\ Handle("TimeoutError")
            /\ UNCHANGED <<elapsed, i, all_issues, language_distribution,
                           total_tokens, overrun_seen, failed_blocks, verified_blocks>>
       ELSE \E d \in 0..MaxStepTime :
               LET k == i + 1
                   r == AnalyzeBlock(k, blocks[k], verifier, url, target_lang,
                                     all_issues, language_distribution, total_tokens)
                   e == IF blocks[k].det.raised THEN "LanguageDetectionError"
                        ELSE "VerificationError"
               IN  /\ elapsed' = Tick(d)
                   /\ overrun_seen' = (overrun_seen \/ Tick(d) > max_analysis_time)
                   /\ all_issues' = r.issues
                   /\ language_distribution' = r.distribution
                   /\ total_tokens' = r.tokens
                   /\ failed_blocks' = IF r.failed THEN failed_blocks \cup {k}
                                       ELSE failed_blocks
                   /\ verified_blocks' = IF r.verified THEN verified_blocks \cup {k}
                                         ELSE verified_blocks
                   /\ IF r.failed /\ OnBlockError(e) = "raise"
                      THEN Handle(e) /\ UNCHANGED i
                      ELSE /\ i' = k
                           /\ pc' = IF k = Len(blocks) THEN "stats" ELSE "loop"
                           /\ UNCHANGED <<result, caught, escaped>>
    /\ UNCHANGED <<initialized, verifier, components, working_verifiers, url,
                   target_lang, blocks>>
    /\ UNCHANGED <<verifyVars, detectVars, statsVars, retryVars, scanVars>>

\* step 4: statistics, result.issues and result.stats, then return
Stats ==
    /\ pc = "stats"
    /\ result' = [result EXCEPT
                     !.issues = all_issues,
                     !.stats = _calculate_stats(Len(blocks), all_issues,
                                                language_distribution,
                                                total_tokens, target_lang)]
    /\ pc' = "done"
    /\ UNCHANGED <<initialized, verifier, components, working_verifiers,
                   url, target_lang, elapsed, blocks, i,
                   all_issues, language_distribution, total_tokens, escaped,
                   caught, overrun_seen, failed_blocks, verified_blocks>>
    /\ UNCHANGED <<verifyVars, detectVars, statsVars, retryVars, scanVars>>

IdleVerify == v_call = [kind |-> "none", done |-> FALSE] /\ v_out = Returned(<<>>)
IdleDetect ==
    /\ d_call = [kind |-> "none", done |-> FALSE]
    /\ d_out = [raised |-> FALSE, language |-> "unknown",
                confidence |-> [num |-> 0, den |-> 1], alternatives |-> <<>>]
IdleStats ==
    /\ s_issues = <<>>
    /\ s_blocks = 0
    /\ s_prev = [num |-> 1, den |-> 1]
    /\ s_score = [num |-> 1, den |-> 1]
    /\ s_last = "none"

IdleRetry ==
    /\ r_pc = "idle"
    /\ r_cfg = [max_retries |-> 0, fail_fast |-> FALSE]
    /\ r_attempt = 0
    /\ r_calls = 0
    /\ r_time = 0
    /\ r_last = "none"
    /\ r_waits = <<>>
    /\ r_out = "none"
IdleScan ==
    /\ c_pc = "idle"
    /\ c_urls = <<>>
    /\ c_outcomes = <<>>
    /\ c_idx = 0
    /\ c_results = <<>>

IdleAnalyzer ==
    /\ initialized = FALSE
    /\ verifier = "None"
    /\ components = {}
    /\ working_verifiers = {}
    /\ pc = "idle"
    /\ url = "None"
    /\ target_lang = "None"
    /\ elapsed = 0
    /\ result = NoResult
    /\ blocks = <<>>
    /\ i = 0
    /\ all_issues = <<>>
    /\ language_distribution = [l \in LangCodes |-> 0]
    /\ total_tokens = 0
    /\ escaped = "none"
    /\ caught = "none"
    /\ overrun_seen = FALSE
    /\ failed_blocks = {}
    /\ verified_blocks = {}

Init == IdleAnalyzer /\ IdleVerify /\ IdleDetect /\ IdleStats /\ IdleRetry /\ IdleScan

Next ==
    \/ Initialize
    \/ Cleanup
    \/ AnalyzeUrl
    \/ Fetch
    \/ Extract
    \/ StartBlocks
    \/ BlockStep
    \/ Stats

Spec == Init /\ [][Next]_vars

(***************************************************************************)
(* Properties of analyze_url                                               *)
(***************************************************************************)
IssuesOf(issues, k) == SelectSeq(issues, LAMBDA x : x.xpath = k)
IssuesOfType(issues, type) == SelectSeq(issues, LAMBDA x : x.type = type)
SingleCritical(issues) == Len(issues) = 1 /\ issues[1].severity = "critical"
ReturnedNormally == pc = "done" /\ caught = "none"

\* C1: once the analyzer is initialized a call of analyze_url never ends by
\* raising, whatever fetch, extract, detection and verification do; when it
\* has returned, the PageResult carries the url and target_lang of the call.
C1_NeverPropagates ==
    /\ initialized => pc # "raised" /\ escaped = "none"
    /\ pc = "done" => result.url = url /\ result.target_lang = target_lang
                      /\ [url |-> url, target_lang |-> target_lang] \in Requests

\* an exception no specific handler names was raised and a result returned
C1_Witness ==
    /\ pc = "done"
    /\ caught = "Exception"
    /\ result.url = url
    /\ SingleCritical(result.issues)

\* C2: after a page-level failure (an exception handled by one of the except
\* clauses of analyze_url) the result holds exactly one issue, it is critical,
\* and none of the issues collected from the blocks is in the list.
C2_SingleCriticalIssue ==
    pc = "done" /\ caught # "none" =>
        /\ SingleCritical(result.issues)
        /\ \A k \in 1..Len(all_issues) : all_issues[k] # result.issues[1]

\* a timeout checkpoint fired after issues had been collected
C2_Witness ==
    /\ pc = "done"
    /\ caught = "TimeoutError"
    /\ Len(all_issues) > 0
    /\ SingleCritical(result.issues)

TimedOutResult(r) ==
    /\ SingleCritical(r.issues)
    /\ ContainsTimedOut(r.issues[1].message)

\* C3 as stated: whenever the ceiling was exceeded at some point of the block
\* loop, the call returns exactly one critical "timed out" issue.
C3_AnyOverrunTimesOut ==
    pc = "done" /\ overrun_seen => TimedOutResult(result)

AtBlockCheckpoint ==
    \/ pc = "start_blocks"
    \/ pc = "loop" /\ i < Len(blocks) /\ i % CheckEvery = 0

\* C3 amended: the ceiling is compared with the elapsed time only at the
\* checkpoints of the block phase (before the loop and at every block index
\* that is a multiple of 10); when the elapsed time exceeds the ceiling at a
\* checkpoint, the call returns at once with exactly one critical "timed out"
\* issue and no exception escapes.
C3_CheckpointTimesOut ==
    [][AtBlockCheckpoint /\ elapsed > max_analysis_time =>
          /\ pc' = "done"
          /\ escaped' = "none"
          /\ TimedOutResult(result')]_vars

\* the checkpoint of block index 10 fired
C3_Witness ==
    /\ pc = "done"
    /\ caught = "TimeoutError"
    /\ i = CheckEvery
    /\ TimedOutResult(result)

\* C4 as stated: a block in which detection or verification raised has no
\* issue at all among the collected issues.
C4_FailingBlockHasNoIssue ==
    \A k \in failed_blocks : Len(IssuesOf(all_issues, k)) = 0

LeakExpected(k) ==
    /\ blocks[k].text.stripped > 0
    /\ ~blocks[k].det.raised
    /\ blocks[k].det.lang \notin {"unknown", target_lang}

\* C4 amended: when detection or verification raises in a block the page is
\* not aborted and every later block is analysed; the failing block adds no
\* verifier issue, but the language_leak issue appended before its verifier
\* raised is kept; the issues of the other blocks are kept.
C4_BlockFailureIsolated ==
    /\ failed_blocks # {} => escaped = "none" /\ caught \in {"none", "TimeoutError"}
    /\ \A k \in failed_blocks :
          /\ Len(IssuesOf(all_issues, k)) = Len(IssuesOfType(IssuesOf(all_issues, k), "language_leak"))
          /\ Len(IssuesOf(all_issues, k)) = IF LeakExpected(k) THEN 1 ELSE 0
    /\ ReturnedNormally =>
          /\ i = Len(blocks)
          /\ result.issues = all_issues
          /\ \A k \in 1..Len(blocks) :
                LeakExpected(k) =>
                   Len(IssuesOfType(IssuesOf(result.issues, k), "language_leak")) = 1

\* a block whose verifier raised kept its leak issue, and a later block was
\* analysed and has an issue in the result
C4_Witness ==
    /\ ReturnedNormally
    /\ \E k \in failed_blocks :
          /\ Len(IssuesOf(result.issues, k)) = 1
          /\ \E later \in (k + 1)..Len(blocks) : Len(IssuesOf(result.issues, later)) > 0

\* block k is not blank and detect_block returned a result for it
HasLanguage(k) == blocks[k].text.stripped > 0 /\ ~blocks[k].det.raised

\* detected as the target language or with a confidence under 0.7, and
\* shorter than 1000 characters
GateOpen(k) ==
    /\ blocks[k].det.lang = target_lang \/ blocks[k].det.conf < 70
    /\ blocks[k].text.len < 1000

\* C18 as stated: for every non-blank block the loop has gone through,
\* whatever language was detected for it, the verifier was called exactly
\* when the block was detected as the target language or with a confidence
\* under 0.7, and is shorter than 1000 characters.
C18_VerifiedIffGateOpen ==
    \A k \in 1..i : HasLanguage(k) => (k \in verified_blocks <=> GateOpen(k))

\* C18 amended: the verifier is called for exactly the blocks that are not
\* blank, whose detection returned a language other than "unknown", and
\* that were detected as the target language or with a confidence under
\* 0.7 and are shorter than 1000 characters; a block detected as "unknown"
\* is never verified, whatever its confidence.
C18_VerifiedIffKnownAndGateOpen ==
    /\ verified_blocks \subseteq 1..i
    /\ \A k \in 1..i :
          k \in verified_blocks <=>
             HasLanguage(k) /\ blocks[k].det.lang # "unknown" /\ GateOpen(k)

\* a page with a block detected as "unknown" (confidence 0), which was not
\* verified, and a foreign block detected with confidence 0.6, which was
C18_Witness ==
    /\ ReturnedNormally
    /\ \E j, k \in 1..Len(blocks) :
          /\ HasLanguage(j) /\ blocks[j].det.lang = "unknown" /\ blocks[j].det.conf < 70
          /\ j \notin verified_blocks
          /\ HasLanguage(k) /\ blocks[k].det.lang \notin {"unknown", target_lang}
          /\ blocks[k].det.conf < 70
          /\ k \in verified_blocks

\* the language_leak issues the loop itself appended for block k
OwnLeaks(k) ==
    SelectSeq(IssuesOfType(IssuesOf(all_issues, k), "language_leak"),
              LAMBDA x : x.source_verifier = "None")

\* C19: for every non-blank block the loop has gone through whose detected
\* language is neither the target language nor "unknown", the loop appended
\* exactly one language_leak issue, of severity error, with the confidence
\* and the language of the detection and the xpath and offsets of the
\* block; for a block detected as the target language or as "unknown" (or
\* blank, or whose detection raised) it appended none.
C19_OneLeakPerForeignBlock ==
    \A k \in 1..i :
       IF HasLanguage(k) /\ blocks[k].det.lang \notin {"unknown", target_lang}
       THEN /\ Len(OwnLeaks(k)) = 1
            /\ OwnLeaks(k)[1].severity = "error"
            /\ OwnLeaks(k)[1].confidence = blocks[k].det.conf
            /\ OwnLeaks(k)[1].detected_lang = blocks[k].det.lang
            /\ OwnLeaks(k)[1].xpath = k
            /\ OwnLeaks(k)[1].offset_start = 100 * k
            /\ OwnLeaks(k)[1].offset_end = 100 * k + blocks[k].text.len
       ELSE Len(OwnLeaks(k)) = 0

\* a page with a foreign block, a target-language block and nothing else,
\* returned with the one leak issue
C19_Witness ==
    /\ ReturnedNormally
    /\ Len(blocks) = 2
    /\ \E j, k \in 1..2 :
          /\ HasLanguage(j) /\ blocks[j].det.lang \notin {"unknown", target_lang}
          /\ HasLanguage(k) /\ blocks[k].det.lang = target_lang
          /\ Len(OwnLeaks(j)) = 1
          /\ Len(OwnLeaks(k)) = 0
    /\ Len(IssuesOfType(result.issues, "language_leak")) = 1

\* the issues of block k that came from verifier.check
VerifierIssuesOf(k) ==
    SelectSeq(IssuesOf(all_issues, k),
              LAMBDA x : ~(x.type = "language_leak" /\ x.source_verifier = "None"))

\* an issue without the two fields the block loop writes
Unstamped(x) == [x EXCEPT !.xpath = 0, !.source_url = "None"]

\* C27: every issue the block loop has collected, and every issue of a
\* PageResult that analyze_url has returned, after a complete analysis and
\* after each of the four handlers, has the url of the call as source_url;
\* the issues verifier.check returned for a block are all in the list with
\* the xpath of that block, and no issue has the xpath of anything else
\* than a block the loop went through.
C27_IssuesCarryUrlAndXpath ==
    /\ \A j \in 1..Len(all_issues) :
          all_issues[j].source_url = url /\ all_issues[j].xpath \in 1..i
    /\ pc = "done" =>
          /\ url # "None"
          /\ result.url = url
          /\ \A j \in 1..Len(result.issues) : result.issues[j].source_url = url
          /\ caught = "none" => result.issues = all_issues
    /\ \A k \in 1..i :
          LET expected == IF k \in verified_blocks \ failed_blocks
                          THEN VerifierCheck(verifier, blocks[k].text, 0, TRUE, TRUE).issues
                          ELSE <<>>
              got == VerifierIssuesOf(k)
          IN  /\ Len(got) = Len(expected)
              /\ \A j \in 1..Len(got) : Unstamped(got[j]) = Unstamped(expected[j])

\* a call that collected issues in the block loop and then ended in a
\* handler: the PageResult has the one critical issue, with the
\* url of the call
C27_Witness ==
    /\ pc = "done"
    /\ caught # "none"
    /\ Len(result.issues) = 1
    /\ result.issues[1].severity = "critical"
    /\ result.issues[1].source_url = url
    /\ url # "None"
    /\ Len(all_issues) > 0
    /\ \A j \in 1..Len(all_issues) : all_issues[j].source_url = url

\* a complete analysis whose list has a leak issue and a verifier issue
C27_WitnessComplete ==
    /\ ReturnedNormally
    /\ \E j, k \in 1..i : Len(OwnLeaks(j)) = 1 /\ Len(VerifierIssuesOf(k)) > 0
    /\ \A j \in 1..Len(result.issues) : result.issues[j].source_url = url

\* the stats of the result count the issues of the result
StatsCountIssues ==
    /\ \A v \in Severities :
          result.stats.issues_by_severity[v] =
              Len(SelectSeq(result.issues, LAMBDA x : x.severity = v))
    /\ \A t \in IssueTypes :
          result.stats.issues_by_type[t] =
              Len(SelectSeq(result.issues, LAMBDA x : x.type = t))

\* C28: in every PageResult analyze_url has returned, after a complete
\* analysis and after each handler, issues_by_severity and issues_by_type
\* of the stats count the issues of the result; a result that holds the
\* critical issue of a handler has one critical issue in its stats and an
\* overall_score below 1.
C28_StatsOfFinalIssues ==
    pc = "done" =>
        /\ StatsCountIssues
        /\ caught # "none" =>
              /\ result.stats.issues_by_severity["critical"] = 1
              /\ FracLess(result.stats.overall_score, [num |-> 1, den |-> 1])

\* the same for the results of a complete analysis only
StatsOfCompleteAnalysis == ReturnedNormally => StatsCountIssues /\ result.stats.computed

\* a complete analysis with issues, counted in the stats
StatsOfCompleteAnalysisExample ==
    ReturnedNormally /\ Len(result.issues) > 1 /\ StatsCountIssues

\* the percentages of the language distribution add up to 100 and the
\* purity score is the percentage of the target language over 100
DistributionFacts ==
    LET d == result.stats.language_distribution
        tokens == result.stats.total_tokens
        purity == result.stats.language_purity_score
    IN  /\ \A l \in LangCodes : d[l].den = tokens
        /\ d["es"].num + d["en"].num + d["nl"].num + d["unknown"].num = 100 * tokens
        /\ FracEq(purity, [num |-> d[target_lang].num, den |-> 100 * tokens])
        /\ purity.den > 0
        /\ 0 <= purity.num
        /\ purity.num <= purity.den

DistributionOfDetectedPages ==
    (/\ ReturnedNormally
     /\ result.stats.total_tokens > 0
     /\ \A k \in 1..Len(blocks) : blocks[k].text.stripped = 0 \/ ~blocks[k].det.raised)
       => DistributionFacts

\* a page with a block whose verification raised and a block detected as
\* "unknown", with a distribution that adds up to 100
DistributionOfDetectedPagesExample ==
    /\ ReturnedNormally
    /\ result.stats.total_tokens > 0
    /\ failed_blocks # {}
    /\ \A k \in 1..Len(blocks) : blocks[k].text.stripped = 0 \/ ~blocks[k].det.raised
    /\ result.stats.language_distribution["unknown"].num > 0
    /\ DistributionFacts

Running == pc \in {"fetch", "extract", "start_blocks", "loop", "stats"}

AllComponents == {ComponentNames[k] : k \in 1..Len(ComponentNames)}

\* C12: a call of initialize() in which a component cannot be created or
\* initialized raises and leaves the analyzer not initialized; a call that
\* makes it initialized has set all four components; analyze_url is inside
\* its fetch, extract, detect and verify steps only on an initialized
\* analyzer with all four components, and called on an analyzer that is
\* not initialized it either completes initialize() and starts with the
\* fetch, or raises and leaves the analyzer not initialized.
C12_FailedInitBlocksAnalysis ==
    /\ [](escaped = "InitError" => ~initialized /\ pc = "raised")
    /\ [](Running => initialized /\ components = AllComponents)
    /\ [][~initialized /\ pc' # "idle" =>
             \/ initialized' /\ pc' = "fetch"
             \/ ~initialized' /\ escaped' = "InitError" /\ pc' = "raised"]_vars
    /\ [][~initialized /\ initialized' =>
             components' = AllComponents /\ escaped' = "none"]_vars

\* analyze_url was called on an analyzer whose initialize() failed after
\* some components had been created: it raised and made no PageResult
C12_Witness ==
    /\ ~initialized
    /\ pc = "raised"
    /\ escaped = "InitError"
    /\ url # "None"
    /\ result = NoResult
    /\ components # {} /\ components # AllComponents

ScenarioAnalysed ==
    /\ ReturnedNormally
    /\ blocks = ScenarioPage
    /\ target_lang = "es"
    /\ verifier = "CompositeVerifier"

\* C10: analysing the scenario page returns exactly one language_leak issue,
\* for block 2, exactly one placeholder issue, for block 3 and with rule
\* EMPTY_PLACEHOLDER, and overall_score < 1.0.
C10_EndToEnd ==
    ScenarioAnalysed =>
        /\ Len(IssuesOfType(result.issues, "language_leak")) = 1
        /\ Len(IssuesOfType(IssuesOf(result.issues, 2), "language_leak")) = 1
        /\ Len(IssuesOfType(result.issues, "placeholder")) = 1
        /\ \A k \in 1..Len(result.issues) :
              result.issues[k].type = "placeholder" =>
                  result.issues[k].rule_id = "EMPTY_PLACEHOLDER"
                  /\ result.issues[k].xpath = 3
        /\ FracLess(result.stats.overall_score, [num |-> 1, den |-> 1])

(***************************************************************************)
(* Language detection (core/language/base.py, composite_detector.py).      *)
(* Confidences are fractions of hundredths: [num |-> 90, den |-> 1] is 0.9 *)
(***************************************************************************)
MaxDetectors == 3       \* a composite detector has at most this many components

Frac(n, d) == [num |-> n, den |-> d]
FracLeq(a, b) == a.num * b.den <= b.num * a.den

SUPPORTED_LANGUAGES == {"es", "en", "nl"}
min_confidence == 50            \* BaseLanguageDetector.min_confidence default
DetectorMinTextLength == 20     \* BaseLanguageDetector.min_text_length default

\* a tuple (language, confidence) of final_scores or alternatives
Scored(language, confidence) == [language |-> language, confidence |-> confidence]

\* what _detect_language_impl returns, or that it raised
Detected(language, confidence, alternatives) ==
    [raised |-> FALSE, language |-> language, confidence |-> confidence,
     alternatives |-> alternatives]
DetectRaised == [raised |-> TRUE, language |-> "unknown", confidence |-> Frac(0, 1),
                 alternatives |-> <<>>]
UnknownResult == Detected("unknown", Frac(0, 1), <<>>)

\* list.sort(key=confidence, reverse=True): stable, so an element goes
\* after the elements whose confidence is not smaller than its own
RECURSIVE InsertByConfidenceDesc(_, _)
InsertByConfidenceDesc(x, s) ==
    IF s = <<>> THEN <<x>>
    ELSE IF FracLeq(x.confidence, Head(s).confidence)
    THEN <<Head(s)>> \o InsertByConfidenceDesc(x, Tail(s))
    ELSE <<x>> \o s

RECURSIVE SortByConfidenceDesc(_)
SortByConfidenceDesc(s) ==
    IF s = <<>> THEN <<>>
    ELSE InsertByConfidenceDesc(s[Len(s)], SortByConfidenceDesc(SubSeq(s, 1, Len(s) - 1)))

Take(s, n) == SubSeq(s, 1, Min(n, Len(s)))

\* the languages of the results in order of first appearance (dict order)
RECURSIVE LanguagesInOrder(_, _)
LanguagesInOrder(results, seen) ==
    IF results = <<>> THEN <<>>
    ELSE IF Head(results).language \in seen THEN LanguagesInOrder(Tail(results), seen)
    ELSE <<Head(results).language>> \o
         LanguagesInOrder(Tail(results), seen \cup {Head(results).language})

\* self.detector_weights.get(detector_name, 1.0), in tenths
DetectorWeight(weights, detector) ==
    IF detector \in DOMAIN weights THEN weights[detector] ELSE 10

VotesFor(results, language) == SelectSeq(results, LAMBDA r : r.language = language)

\* the final score of one language in _weighted_voting:
\* min(score / weight + min(votes / len(results), 1.0) * 0.1, 1.0)
FinalScore(score, weight, votes, n) ==
    LET sum == Frac(score * n + 10 * votes * weight, weight * n)
    IN  IF FracLess(Frac(100, 1), sum) THEN Frac(100, 1) ELSE sum

_weighted_voting(results, weights) ==
    LET languages == LanguagesInOrder(results, {})
        Score(l) == SeqSum([k \in 1..Len(VotesFor(results, l)) |->
                               VotesFor(results, l)[k].confidence.num
                               * DetectorWeight(weights, VotesFor(results, l)[k].detector)])
        Weight(l) == SeqSum([k \in 1..Len(VotesFor(results, l)) |->
                                DetectorWeight(weights, VotesFor(results, l)[k].detector)])
        counted == SelectSeq(languages, LAMBDA l : Weight(l) > 0)
        final_scores ==
            SortByConfidenceDesc(
                [k \in 1..Len(counted) |->
                    Scored(counted[k],
                           FinalScore(Score(counted[k]), Weight(counted[k]),
                                      Len(VotesFor(results, counted[k])), Len(results)))])
    IN  IF final_scores = <<>> THEN UnknownResult
        ELSE Detected(final_scores[1].language, final_scores[1].confidence,
                      SubSeq(final_scores, 2, Min(5, Len(final_scores))))

\* statistics.mean of the confidences of the results for a language
MeanConfidence(results, language) ==
    LET votes == VotesFor(results, language)
    IN  Frac(SeqSum([k \in 1..Len(votes) |-> votes[k].confidence.num]), Len(votes))

\* the tie loop of _majority_voting over the winners: the first winner whose
\* mean confidence is greater than the best so far replaces it
TieBreakFirst(results, winners, best_lang, best_confidence) ==
    Scored(Head(winners), MeanConfidence(results, Head(winners)))

RECURSIVE TieBreak(_, _, _, _)
TieBreak(results, winners, best_lang, best_confidence) ==
    IF winners = <<>> THEN Scored(best_lang, best_confidence)
    ELSE LET avg_conf == MeanConfidence(results, Head(winners))
         IN  IF FracLess(best_confidence, avg_conf)
             THEN TieBreak(results, Tail(winners), Head(winners), avg_conf)
             ELSE TieBreak(results, Tail(winners), best_lang, best_confidence)

_majority_voting(results) ==
    LET languages == LanguagesInOrder(results, {})
        Votes(l) == Len(VotesFor(results, l))
        max_votes == CHOOSE m \in {Votes(languages[k]) : k \in 1..Len(languages)} :
                         \A k \in 1..Len(languages) : Votes(languages[k]) <= m
        winners == SelectSeq(languages, LAMBDA l : Votes(l) = max_votes)
        best == IF Len(winners) = 1
                THEN Scored(winners[1], MeanConfidence(results, winners[1]))
                ELSE TieBreak(results, winners, "None", Frac(0, 1))
        others == SelectSeq(languages, LAMBDA l : l # best.language)
        alternatives ==
            SortByConfidenceDesc(
                [k \in 1..Len(others) |->
                    Scored(others[k], MeanConfidence(results, others[k]))])
    IN  IF languages = <<>> THEN UnknownResult
        ELSE Detected(best.language, best.confidence, Take(alternatives, 3))

\* all_alternatives[lang] = conf unless a confidence at least as large is there
PutAlternativeKeepFirst(all_alternatives, alt) ==
    IF \E k \in 1..Len(all_alternatives) : all_alternatives[k].language = alt.language
    THEN all_alternatives
    ELSE Append(all_alternatives, alt)

PutAlternative(all_alternatives, alt) ==
    LET at == {k \in 1..Len(all_alternatives) :
                  all_alternatives[k].language = alt.language}
    IN  IF at = {} THEN Append(all_alternatives, alt)
        ELSE [k \in 1..Len(all_alternatives) |->
                 IF k \in at /\ FracLess(all_alternatives[k].confidence, alt.confidence)
                 THEN alt ELSE all_alternatives[k]]

RECURSIVE PutAlternatives(_, _)
PutAlternatives(all_alternatives, alts) ==
    IF alts = <<>> THEN all_alternatives
    ELSE PutAlternatives(PutAlternative(all_alternatives, Head(alts)), Tail(alts))

\* the loop of _best_confidence_voting over the sorted results
RECURSIVE CollectAlternatives(_, _, _)
CollectAlternatives(results, best_result, all_alternatives) ==
    IF results = <<>> THEN all_alternatives
    ELSE LET entry == Head(results)
             own == IF entry # best_result
                    THEN PutAlternative(all_alternatives,
                                        Scored(entry.language, entry.confidence))
                    ELSE all_alternatives
         IN  CollectAlternatives(Tail(results), best_result,
                                 PutAlternatives(own, entry.alternatives))

_best_confidence_voting(results) ==
    LET sorted == SortByConfidenceDesc(results)
        best_result == sorted[1]
        alternatives ==
            SortByConfidenceDesc(CollectAlternatives(sorted, best_result, <<>>))
    IN  IF results = <<>> THEN UnknownResult
        ELSE Detected(best_result.language, best_result.confidence,
                      Take(alternatives, 3))

VotingMethods == {"weighted", "majority", "best"}

\* CompositeLanguageDetector._detect_language_impl: outcomes[k] is what
\* detect_block of component k did (a result, or DetectRaised)
_detect_language_impl(names, outcomes, weights, voting_method) ==
    LET answered == {k \in 1..Len(names) :
                        ~outcomes[k].raised /\ outcomes[k].language # "unknown"}
        kept == SelectSeq([k \in 1..Len(names) |-> k], LAMBDA k : k \in answered)
        detector_results ==
            [j \in 1..Len(kept) |->
                [detector |-> names[kept[j]],
                 language |-> outcomes[kept[j]].language,
                 confidence |-> outcomes[kept[j]].confidence,
                 alternatives |-> outcomes[kept[j]].alternatives]]
    IN  IF detector_results = <<>> THEN UnknownResult
        ELSE CASE voting_method = "weighted" -> _weighted_voting(detector_results, weights)
               [] voting_method = "majority" -> _majority_voting(detector_results)
               [] voting_method = "best" -> _best_confidence_voting(detector_results)
               [] OTHER -> DetectRaised

\* the except clause of detect_block
OnDetectionErrorReraise(impl) == DetectRaised

OnDetectionError(impl) == UnknownResult

\* BaseLanguageDetector.detect_block: stripped is len(text.strip()),
\* processed len(self._preprocess_text(text)), impl what
\* _detect_language_impl does on the processed text
detect_block(stripped, processed, impl) ==
    IF stripped < DetectorMinTextLength THEN UnknownResult
    ELSE IF processed = 0 THEN UnknownResult
    ELSE IF impl.raised THEN OnDetectionError(impl)
    ELSE LET alternatives == SelectSeq(impl.alternatives,
                                       LAMBDA a : a.language \in SUPPORTED_LANGUAGES)
             replaced == impl.language \notin SUPPORTED_LANGUAGES /\ alternatives # <<>>
             detected_lang == IF replaced THEN alternatives[1].language ELSE impl.language
             confidence == IF replaced THEN alternatives[1].confidence ELSE impl.confidence
         IN  IF FracLess(confidence, Frac(min_confidence, 1))
             THEN Detected("unknown", Frac(0, 1), Take(alternatives, 3))
             ELSE Detected(detected_lang, confidence, Take(alternatives, 3))

(***************************************************************************)
(* Calls of detect_block on a composite detector                           *)
(***************************************************************************)
DetectorClasses == <<"FastTextDetector", "LangIDDetector">>

\* component k of the composite: the two detector classes in turn
DetectorName(k) == DetectorClasses[((k - 1) % 2) + 1]

\* detector_weights: none configured, the default of
\* LanguageDetectorFactory._create_composite_detector, LangID preferred
WeightConfigs ==
    {<<>>,
     [d \in {"FastTextDetector", "LangIDDetector"} |->
         IF d = "FastTextDetector" THEN 15 ELSE 10],
     [d \in {"FastTextDetector", "LangIDDetector"} |->
         IF d = "FastTextDetector" THEN 10 ELSE 20]}

\* what detect_block of a component can answer
ComponentOutcomes ==
    {DetectRaised,
     UnknownResult,
     Detected("es", Frac(90, 1), <<>>),
     Detected("es", Frac(60, 1), <<Scored("en", Frac(30, 1))>>),
     Detected("en", Frac(60, 1), <<>>),
     Detected("en", Frac(90, 1), <<Scored("es", Frac(40, 1))>>),
     Detected("fr", Frac(80, 1), <<>>),
     Detected("nl", Frac(70, 1), <<Scored("fr", Frac(20, 1))>>)}

\* texts by (len(text.strip()), len(preprocessed)): empty, too short, only
\* a URL, a sentence
DetectTexts ==
    {[stripped |-> 0, processed |-> 0],
     [stripped |-> 10, processed |-> 10],
     [stripped |-> 30, processed |-> 0],
     [stripped |-> 40, processed |-> 40]}

\* detect_block keeps no state between calls: a behaviour is one call
DetectBlock ==
    /\ d_call.kind = "none"
    /\ \E n \in 1..MaxDetectors, text \in DetectTexts, weights \in WeightConfigs,
          voting_method \in VotingMethods \cup {"ranked"} :
          \E outcomes \in [1..n -> ComponentOutcomes] :
             LET names == [k \in 1..n |-> DetectorName(k)]
             IN  /\ d_call' = [kind |-> "composite", done |-> TRUE, text |-> text,
                               names |-> names, outcomes |-> outcomes,
                               weights |-> weights, voting_method |-> voting_method]
                 /\ d_out' = detect_block(text.stripped, text.processed,
                                 _detect_language_impl(names, outcomes, weights,
                                                       voting_method))
    /\ UNCHANGED <<analyzerVars, verifyVars, statsVars, retryVars, scanVars>>

\* detect_block of any other detector: its implementation answers or raises
DetectBlockSimple ==
    /\ d_call.kind = "none"
    /\ \E text \in DetectTexts, impl \in ComponentOutcomes :
          /\ d_call' = [kind |-> "simple", done |-> TRUE, text |-> text, impl |-> impl]
          /\ d_out' = detect_block(text.stripped, text.processed, impl)
    /\ UNCHANGED <<analyzerVars, verifyVars, statsVars, retryVars, scanVars>>

InitDetect == IdleAnalyzer /\ IdleVerify /\ IdleDetect /\ IdleStats /\ IdleRetry /\ IdleScan

NextDetect == DetectBlock \/ DetectBlockSimple

SpecDetect == InitDetect /\ [][NextDetect]_vars

Called == d_call.done
ImplRan == Called /\ d_call.text.stripped >= DetectorMinTextLength
                  /\ d_call.text.processed > 0
NoAnswer(k) ==
    d_call.outcomes[k].raised \/ d_call.outcomes[k].language = "unknown"
IsUnknown(r) == r.language = "unknown" /\ FracEq(r.confidence, Frac(0, 1))

\* C6: detect_block never raises; when the implementation fails the result
\* is unknown with confidence 0.0.  For the composite detector this holds
\* when components raise and when the voting method is none of weighted,
\* majority, best; when every component raises or answers unknown the
\* result is unknown, 0.0 and has no alternatives.
C6_DetectBlockNeverRaises ==
    Called =>
        /\ ~d_out.raised
        /\ d_call.kind = "simple" /\ d_call.impl.raised => IsUnknown(d_out)
        /\ d_call.kind = "composite" /\ d_call.voting_method \notin VotingMethods =>
              IsUnknown(d_out) /\ d_out.alternatives = <<>>
        /\ d_call.kind = "composite" /\ (\A k \in 1..Len(d_call.names) : NoAnswer(k)) =>
              IsUnknown(d_out) /\ d_out.alternatives = <<>>

\* the voting method is unknown, one component raised and another answered
C6_Witness ==
    /\ ImplRan
    /\ d_call.kind = "composite"
    /\ d_call.voting_method \notin VotingMethods
    /\ \E k \in 1..Len(d_call.names) : d_call.outcomes[k].raised
    /\ \E k \in 1..Len(d_call.names) : ~NoAnswer(k)
    /\ IsUnknown(d_out)

\* detector_results of the call: the answers other than unknown, in
\* detector order
DetectorResults ==
    LET kept == SelectSeq([k \in 1..Len(d_call.names) |-> k], LAMBDA k : ~NoAnswer(k))
    IN  [j \in 1..Len(kept) |->
            [detector |-> d_call.names[kept[j]],
             language |-> d_call.outcomes[kept[j]].language,
             confidence |-> d_call.outcomes[kept[j]].confidence,
             alternatives |-> d_call.outcomes[kept[j]].alternatives]]

\* what the voting method of the call returned
Voted ==
    _detect_language_impl(d_call.names, d_call.outcomes, d_call.weights,
                          d_call.voting_method)

VotingCall(method) ==
    /\ Called
    /\ d_call.kind = "composite"
    /\ d_call.voting_method = method
    /\ DetectorResults # <<>>

VoteCount(l) ==
    Cardinality({k \in 1..Len(DetectorResults) : DetectorResults[k].language = l})

\* mean confidence of the detectors that voted for l
VoteMean(l) ==
    Frac(SeqSum([k \in 1..Len(DetectorResults) |->
                    IF DetectorResults[k].language = l
                    THEN DetectorResults[k].confidence.num ELSE 0]),
         VoteCount(l))

\* C24: in majority voting the language returned has the greatest number
\* of votes among the detector results; among the languages with that
\* number of votes it has the greatest mean confidence; the confidence
\* returned is the mean confidence of the detectors that voted for it.
C24_MajorityWinner ==
    VotingCall("majority") =>
        /\ VoteCount(Voted.language) > 0
        /\ \A k \in 1..Len(DetectorResults) :
              LET l == DetectorResults[k].language
              IN  /\ VoteCount(l) <= VoteCount(Voted.language)
                  /\ VoteCount(l) = VoteCount(Voted.language) =>
                         FracLeq(VoteMean(l), VoteMean(Voted.language))
        /\ FracEq(Voted.confidence, VoteMean(Voted.language))

\* three detectors, one vote each; the language voted last has the greatest
\* confidence and wins
C24_Witness ==
    /\ ImplRan
    /\ VotingCall("majority")
    /\ Len(DetectorResults) = 3
    /\ \A l \in {"es", "fr", "en"} : VoteCount(l) = 1
    /\ DetectorResults[1].language = "es"
    /\ DetectorResults[3].language = "en"
    /\ Voted.language = "en"
    /\ FracEq(Voted.confidence, Frac(90, 1))
    /\ d_out.language = "en"

\* the detector result with the highest confidence, the first of them
BestIndex ==
    CHOOSE k \in 1..Len(DetectorResults) :
        /\ \A j \in 1..Len(DetectorResults) :
              FracLeq(DetectorResults[j].confidence, DetectorResults[k].confidence)
        /\ \A j \in 1..(k - 1) :
              FracLess(DetectorResults[j].confidence, DetectorResults[k].confidence)

\* the primary picks of the results in K
Primaries(K) ==
    {Scored(DetectorResults[k].language, DetectorResults[k].confidence) : k \in K}

\* the secondary picks of the results in K
Secondaries(K) ==
    UNION {{DetectorResults[k].alternatives[j] :
               j \in 1..Len(DetectorResults[k].alternatives)} : k \in K}

\* out lists the languages of picks, one entry per language with the
\* greatest confidence picked for it, by confidence descending, and only
\* the first limit of them
ListsPicks(out, picks, limit) ==
    LET langs == {p.language : p \in picks}
        Top(l) == CHOOSE p \in picks :
                      /\ p.language = l
                      /\ \A q \in picks : q.language = l => FracLeq(q.confidence, p.confidence)
        listed == {out[k].language : k \in 1..Len(out)}
    IN  /\ Len(out) = Min(limit, Cardinality(langs))
        /\ \A k \in 1..Len(out) :
              /\ out[k].language \in langs
              /\ FracEq(out[k].confidence, Top(out[k].language).confidence)
              /\ \A j \in 1..(k - 1) :
                    /\ out[j].language # out[k].language
                    /\ FracLeq(out[k].confidence, out[j].confidence)
        /\ \A l \in langs \ listed :
              \A k \in 1..Len(out) : FracLeq(Top(l).confidence, out[k].confidence)

BestIsReturned ==
    /\ Voted.language = DetectorResults[BestIndex].language
    /\ FracEq(Voted.confidence, DetectorResults[BestIndex].confidence)

\* C25 as stated: in best-confidence voting the language and confidence
\* returned are those of the detector result with the highest confidence,
\* and the alternatives are exactly the primary and secondary picks of the
\* other detectors, one entry per language with its greatest confidence,
\* by confidence descending.
C25_AlternativesOfOthers ==
    VotingCall("best") =>
        /\ BestIsReturned
        /\ ListsPicks(Voted.alternatives,
                      Primaries(1..Len(DetectorResults) \ {BestIndex})
                      \cup Secondaries(1..Len(DetectorResults) \ {BestIndex}),
                      2 * Len(DetectorResults))

\* C25 amended: the language and confidence returned are those of the
\* detector result with the highest confidence; the alternatives are the
\* primary picks of the results that differ from the winning result and
\* the secondary picks of all results, those of the winning detector
\* included, one entry per language with its greatest confidence, by
\* confidence descending, cut to the first three.
C25_AlternativesOfAll ==
    VotingCall("best") =>
        /\ BestIsReturned
        /\ ListsPicks(Voted.alternatives,
                      Primaries({k \in 1..Len(DetectorResults) :
                                    DetectorResults[k] # DetectorResults[BestIndex]})
                      \cup Secondaries(1..Len(DetectorResults)),
                      3)

\* en wins with 0.9; es is listed with 0.6, not with the 0.4 of the winning
\* detector; en is listed with the 0.3 the es detector gave it; fr, fourth,
\* is cut
C25_Witness ==
    /\ ImplRan
    /\ VotingCall("best")
    /\ Len(DetectorResults) = 3
    /\ Voted.language = "en"
    /\ FracEq(Voted.confidence, Frac(90, 1))
    /\ Voted.alternatives = <<Scored("nl", Frac(70, 1)), Scored("es", Frac(60, 1)),
                              Scored("en", Frac(30, 1))>>

\* C30: whatever the voting method (weighted, majority, best) and the
\* detector results, the language returned is not among the alternatives
\* returned, and the alternatives are ordered by score descending.
C30_WinnerNotAmongAlternatives ==
    \A method \in VotingMethods :
       VotingCall(method) =>
          \A k \in 1..Len(Voted.alternatives) :
             /\ Voted.alternatives[k].language # Voted.language
             /\ \A j \in 1..(k - 1) :
                   FracLeq(Voted.alternatives[k].confidence,
                           Voted.alternatives[j].confidence)

\* the example: A votes es with confidence 0.9 and weight 1.0, B votes en
\* with confidence 0.6 and weight 2.0
WeightedExample ==
    /\ ImplRan
    /\ d_call.kind = "composite"
    /\ d_call.voting_method = "weighted"
    /\ d_call.outcomes = <<Detected("es", Frac(90, 1), <<>>),
                           Detected("en", Frac(60, 1), <<>>)>>
    /\ DetectorWeight(d_call.weights, d_call.names[1]) = 10
    /\ DetectorWeight(d_call.weights, d_call.names[2]) = 20

\* C7: in weighted voting the language with the largest sum of confidence
\* times weight wins; in the example en (1.2) wins over es (0.9).
C7_LargestWeightedScoreWins ==
    WeightedExample => d_out.language = "en"

(***************************************************************************)
(* HeuristicVerifier._detect_language_leakage (heuristic_verifier.py).     *)
(* A text is given by what the scorer reads: len(text), the words          *)
(* _extract_words finds, and for each language the number of matches of    *)
(* its 'chars' pattern and of its 'patterns' in the text.  Scores are      *)
(* fractions of 1 ([num |-> 8, den |-> 100] is 0.08).                      *)
(***************************************************************************)
LeakLanguages == <<"es", "en", "nl">>   \* LANGUAGE_PATTERNS, in dict order

\* LANGUAGE_PATTERNS[lang]['words'] (the accented "mas" of 'es' is in no
\* text below and is left out)
PatternWords(lang) ==
    CASE lang = "es" ->
           {"el", "la", "de", "que", "y", "en", "un", "es", "se", "no", "te", "lo",
            "con", "para", "una", "del", "todo", "le", "da", "su", "por", "son",
            "pero", "esto", "ya", "muy", "hacer", "como", "fue", "ser", "han",
            "cuando", "hasta", "desde"}
      [] lang = "en" ->
           {"the", "be", "to", "of", "and", "a", "in", "that", "have", "it", "for",
            "not", "on", "with", "he", "as", "you", "do", "at", "this", "but", "his",
            "by", "from", "they", "she", "or", "an", "will", "my", "one", "all",
            "would", "there", "their"}
      [] lang = "nl" ->
           {"de", "het", "een", "en", "van", "te", "dat", "die", "in", "is", "hij",
            "niet", "zijn", "op", "aan", "met", "als", "voor", "had", "er", "maar",
            "om", "hem", "dan", "zou", "nu", "wel", "nog", "worden", "bij", "onder",
            "tegen"}
      [] OTHER -> {}

\* self.whitelist default
whitelist ==
    {"email", "online", "website", "app", "software", "hardware", "login",
     "logout", "password", "username", "admin", "user", "click", "download",
     "upload", "submit", "cancel", "ok", "google", "microsoft", "apple",
     "facebook", "twitter", "blog", "podcast", "streaming", "wifi", "smartphone"}

leak_threshold == 8             \* self.leak_threshold default 0.08, in hundredths
min_words_for_detection == 3    \* self.min_words_for_detection default

\* word.lower() on the words of the texts below
LowerWord(w) ==
    CASE w = "Hello" -> "hello"
      [] w = "English" -> "english"
      [] w = "Hola" -> "hola"
      [] w = "Dit" -> "dit"
      [] w = "Hoi" -> "hoi"
      [] w = "Login" -> "login"
      [] OTHER -> w

LeakText(len, words, chars, patterns) ==
    [len |-> len, words |-> words,
     chars |-> [l \in {"es", "en", "nl"} |-> chars[l]],
     patterns |-> [l \in {"es", "en", "nl"} |-> patterns[l]]]

PerLanguage(es, en, nl) ==
    [l \in {"es", "en", "nl"} |-> CASE l = "es" -> es [] l = "en" -> en [] OTHER -> nl]

\* "Hello world, this is clearly English content": 44 characters, 37 of
\* them match [a-zA-Z], "clearly" matches the English ending pattern
HelloText ==
    LeakText(44, <<"Hello", "world", "this", "is", "clearly", "English", "content">>,
             PerLanguage(0, 37, 0), PerLanguage(0, 1, 0))

\* the words with word.lower() in the word list of lang and not whitelisted
MatchingWords(words, lang) ==
    SelectSeq(words, LAMBDA w : /\ LowerWord(w) \in PatternWords(lang)
                                /\ LowerWord(w) \notin whitelist)

\* score = char_score * 0.3 + word_score * 0.5 + pattern_score * 0.2
LeakScore(text, lang) ==
    LET c == text.chars[lang]
        m == Len(MatchingWords(text.words, lang))
        p == text.patterns[lang]
        n == Max(text.len, 1)
        w == Len(text.words)
    IN  Frac(30 * c * w + 50 * m * n + 20 * p * n, 100 * n * w)

\* "if score >= self.leak_threshold"
ReachesThresholdNever(score, threshold) == FALSE

ReachesThreshold(score, threshold) == FracLeq(Frac(threshold, 100), score)

\* the issue of lines 146-170 for language lang; the confidence is
\* min(0.95, score * 2) as a fraction of 1
LeakageIssueUndoubled(text, lang, target, score) ==
    [NewIssue("language_leak", "error", <<"Text appears to contain content", Upper(lang)>>,
              {<<"Review content - expected text", Upper(target)>>},
              0, 0, text.len, score, "LANGUAGE_LEAK_" \o Upper(lang))
        EXCEPT !.detected_lang = lang]

LeakageIssue(text, lang, target, score) ==
    LET evidence == MatchingWords(text.words, lang)
        doubled == Frac(2 * score.num, score.den)
        confidence == IF FracLess(Frac(95, 100), doubled) THEN Frac(95, 100)
                      ELSE doubled
        message ==
            IF evidence # <<>>
            THEN <<"Possible words detected", Upper(lang), Take(evidence, 5),
                   Max(Len(evidence) - 5, 0)>>
            ELSE <<"Text appears to contain content", Upper(lang)>>
    IN  [NewIssue("language_leak", "error", message,
                  {<<"Review content - expected text", Upper(target)>>},
                  0, 0, text.len, confidence, "LANGUAGE_LEAK_" \o Upper(lang))
            EXCEPT !.detected_lang = lang]

_detect_language_leakage(text, target, threshold) ==
    IF target \notin {LeakLanguages[k] : k \in 1..Len(LeakLanguages)} THEN <<>>
    ELSE IF Len(text.words) < min_words_for_detection THEN <<>>
    ELSE LET scored == SelectSeq(LeakLanguages, LAMBDA l : l # target)
             leaking == SelectSeq(scored,
                            LAMBDA l : ReachesThreshold(LeakScore(text, l), threshold))
         IN  [k \in 1..Len(leaking) |->
                 LeakageIssue(text, leaking[k], target, LeakScore(text, leaking[k]))]

\* texts given to the leak detector: the English example, a Spanish and a
\* Dutch sentence, two words only, digits and punctuation only, and a
\* sentence built on a whitelisted word
LeakTexts ==
    {HelloText,
     LeakText(39, <<"Hola", "mundo", "esto", "es", "una", "prueba", "de", "texto">>,
              PerLanguage(0, 31, 0), PerLanguage(0, 0, 1)),
     LeakText(26, <<"Dit", "is", "het", "huis", "van", "de", "man">>,
              PerLanguage(0, 20, 0), PerLanguage(0, 0, 2)),
     LeakText(8, <<"Hoi", "daar">>, PerLanguage(0, 7, 0), PerLanguage(0, 0, 0)),
     LeakText(19, <<>>, PerLanguage(0, 0, 0), PerLanguage(0, 0, 0)),
     LeakText(21, <<"Login", "online", "wifi">>,
              PerLanguage(0, 16, 0), PerLanguage(0, 0, 0))}

LeakThresholds == {leak_threshold, 30, 100}

(***************************************************************************)
(* Calls of check() on a verifier                                          *)
(***************************************************************************)
MaxIssues == 3          \* the component verifiers emit at most this many issues

\* empty, whitespace only, two characters, only a URL, and longer texts
VerifyTexts ==
    {Text(0, 0, 0, 0, <<>>, <<>>),
     BlankText,
     Text(2, 2, 2, 1, <<>>, <<>>),
     Text(30, 30, 0, 1, <<>>, <<>>),
     PlainText,
     EmptyPlaceholderText,
     BlankPlaceholderText,
     Text(40, 40, 40, 6, <<[pos |-> 5, content |-> <<"1", "a">>]>>, <<>>),
     Text(40, 40, 40, 6, <<[pos |-> 5, content |-> <<"a", "1">>]>>, <<>>),
     TypoText,
     LargeText}

\* check() keeps no state between calls: a behaviour is one call
VerifierCheckCall ==
    /\ v_call.kind = "none"
    /\ \E cls \in VerifierClasses, text \in VerifyTexts,
          deduplicate_issues \in BOOLEAN, merge_overlapping \in BOOLEAN :
          /\ v_call' = [kind |-> "check", done |-> TRUE, cls |-> cls, text |-> text,
                        deduplicate_issues |-> deduplicate_issues,
                        merge_overlapping |-> merge_overlapping]
          /\ v_out' = VerifierCheck(cls, text, 0, deduplicate_issues, merge_overlapping)
    /\ UNCHANGED <<analyzerVars, detectVars, statsVars, retryVars, scanVars>>

Emitted(type, start, end, message, suggestion, confidence) ==
    NewIssue(type, "warning", message, suggestion, 0, start, end, confidence, "None")

\* the issues component verifiers emit in a composite call
IssueUniverse ==
    {Emitted("spelling", 10, 20, "m", {"s1"}, 80),
     Emitted("spelling", 10, 20, "M", {"s2"}, 90),
     Emitted("spelling", 10, 20, "m", {"s2"}, 80),
     Emitted("spelling", 10, 30, "n", {}, 70),
     Emitted("grammar", 10, 30, "m", {}, 70),
     Emitted("spelling", 15, 20, "n", {"s1"}, 60),
     Emitted("spelling", 10, 90, "m", {}, 50),
     Emitted("spelling", 30, 40, "n", {}, 85),
     Emitted("spelling", 70, 80, "m", {}, 75)}

\* CompositeVerifier.check over component verifiers taken as black boxes:
\* verifier 1 emits the first n1 issues, verifier 2 the next n2, verifier 3
\* the rest; a verifier that emits nothing may have raised instead
CompositeCheck ==
    /\ v_call.kind = "none"
    /\ \E n1 \in 0..MaxIssues, deduplicate_issues \in BOOLEAN,
          merge_overlapping \in BOOLEAN :
       \E n2 \in 0..(MaxIssues - n1) :
       \E n3 \in 0..(MaxIssues - n1 - n2) :
       \E emitted \in [1..(n1 + n2 + n3) -> IssueUniverse] :
       \E raiser \in {0} \cup {k \in 1..3 : <<n1, n2, n3>>[k] = 0} :
          LET lists == <<SubSeq(emitted, 1, n1),
                         SubSeq(emitted, n1 + 1, n1 + n2),
                         SubSeq(emitted, n1 + n2 + 1, n1 + n2 + n3)>>
              outcomes == [k \in 1..3 |->
                              IF k = raiser THEN Raised ELSE Returned(lists[k])]
          IN  /\ v_call' = [kind |-> "composite", done |-> TRUE,
                            cls |-> "CompositeVerifier", text |-> PlainText,
                            names |-> CompositeMembers, outcomes |-> outcomes,
                            called |-> CalledVerifiers(CompositeMembers, outcomes),
                            deduplicate_issues |-> deduplicate_issues,
                            merge_overlapping |-> merge_overlapping]
              /\ v_out' = BaseCheck(PlainText,
                              Returned(CompositeCheckImpl(CompositeMembers, outcomes,
                                           deduplicate_issues, merge_overlapping)),
                              0)
    /\ UNCHANGED <<analyzerVars, detectVars, statsVars, retryVars, scanVars>>

\* one call of _detect_language_leakage on a HeuristicVerifier
DetectLanguageLeakage ==
    /\ v_call.kind = "none"
    /\ \E text \in LeakTexts, target \in {"es", "en", "nl", "fr"},
          threshold \in LeakThresholds :
          /\ v_call' = [kind |-> "leakage", done |-> TRUE, cls |-> "HeuristicVerifier",
                        text |-> text, target_lang |-> target,
                        leak_threshold |-> threshold]
          /\ v_out' = Returned(_detect_language_leakage(text, target, threshold))
    /\ UNCHANGED <<analyzerVars, detectVars, statsVars, retryVars, scanVars>>

MaxGroup == 3           \* a group of duplicates has at most this many issues

\* issues with one deduplication key, as they reach _deduplicate_issues:
\* tagged with the verifier they come from, or without a tag
Duplicates ==
    {[Emitted("spelling", 10, 20, message, {}, confidence)
         EXCEPT !.source_verifier = source] :
        message \in {"m", "M"}, confidence \in {80, 90},
        source \in {"LanguageToolVerifier", "PlaceholderValidator",
                    "HeuristicVerifier", "None"}}

\* one call of _deduplicate_issues on a list of duplicates
DeduplicateGroup ==
    /\ v_call.kind = "none"
    /\ \E n \in 2..MaxGroup :
       \E group \in [1..n -> Duplicates] :
          /\ v_call' = [kind |-> "dedup", done |-> TRUE, cls |-> "CompositeVerifier",
                        group |-> group, deduplicate_issues |-> TRUE,
                        merge_overlapping |-> FALSE]
          /\ v_out' = Returned(_deduplicate_issues(group))
    /\ UNCHANGED <<analyzerVars, detectVars, statsVars, retryVars, scanVars>>

\* issues of one type that differ in every field the merge can take from
\* its base issue
MergeCandidates ==
    {NewIssue("spelling", "warning", "m", {"s1"}, 0, 10, 20, 80, "R1"),
     NewIssue("spelling", "error", "n", {}, 0, 15, 30, 90, "R2"),
     NewIssue("spelling", "warning", "m", {"s2"}, 0, 18, 25, 90, "R3"),
     NewIssue("spelling", "info", "m", {}, 0, 5, 12, 60, "R4")}

\* one call of _merge_issue_group
MergeGroup ==
    /\ v_call.kind = "none"
    /\ \E n \in 2..MaxGroup :
       \E group \in [1..n -> MergeCandidates] :
          /\ v_call' = [kind |-> "merge_group", done |-> TRUE, cls |-> "None",
                        group |-> group]
          /\ v_out' = Returned(<<_merge_issue_group(group)>>)
    /\ UNCHANGED <<analyzerVars, detectVars, statsVars, retryVars, scanVars>>

InitVerify == IdleAnalyzer /\ IdleVerify /\ IdleDetect /\ IdleStats /\ IdleRetry /\ IdleScan

NextVerify ==
    \/ VerifierCheckCall
    \/ CompositeCheck
    \/ DetectLanguageLeakage
    \/ DeduplicateGroup
    \/ MergeGroup

SpecVerify == InitVerify /\ [][NextVerify]_vars

\* C5: check() of every verifier returns a list for every text; it never
\* raises.
C5_CheckNeverRaises == v_call.done => ~v_out.raised

\* the key the output is to be free of duplicates of
SameKey(a, b) ==
    /\ a.offset_start = b.offset_start
    /\ a.offset_end = b.offset_end
    /\ a.type = b.type
    /\ LowerMessage(a.message) = LowerMessage(b.message)

MergedList ==
    CompositeCheckImpl(v_call.names, v_call.outcomes,
                       v_call.deduplicate_issues, v_call.merge_overlapping)

\* same type, overlapping spans, starts less than MergeProximity apart
Mergeable(a, b) ==
    /\ a.type = b.type
    /\ a.offset_start <= b.offset_end
    /\ b.offset_start <= a.offset_end
    /\ a.offset_start - b.offset_start < MergeProximity
    /\ b.offset_start - a.offset_start < MergeProximity

\* C17: with merging enabled the list _merge_overlapping_issues returns
\* never holds two issues of the same type whose spans overlap and whose
\* starts are less than 50 characters apart.
C17_NoMergeableLeft ==
    v_call.done /\ v_call.kind = "composite" /\ v_call.merge_overlapping =>
        \A j, k \in 1..Len(MergedList) :
            j # k => ~Mergeable(MergedList[j], MergedList[k])

\* the issues verifier k returned, as the loop hands them on: tagged with
\* the class of the verifier; nothing when it raised
HandedOn(k) ==
    IF v_call.outcomes[k].raised THEN <<>>
    ELSE [j \in 1..Len(v_call.outcomes[k].issues) |->
             [v_call.outcomes[k].issues[j] EXCEPT !.source_verifier = v_call.names[k]]]

\* C21: in a call of CompositeVerifier.check every component verifier is
\* called once, in list order, also after a verifier that raised; a
\* verifier that raised contributes nothing and every issue of the others
\* is handed to the post-processing: with deduplication and merging both
\* off the list returned is the concatenation of their lists in verifier
\* order.
C21_EveryVerifierRuns ==
    v_call.done /\ v_call.kind = "composite" =>
        /\ v_call.called = v_call.names
        /\ Len(v_call.names) = 3
        /\ (~v_call.deduplicate_issues /\ ~v_call.merge_overlapping) =>
               MergedList = HandedOn(1) \o HandedOn(2) \o HandedOn(3)
        /\ (v_call.deduplicate_issues /\ ~v_call.merge_overlapping) =>
               MergedList = _deduplicate_issues(HandedOn(1) \o HandedOn(2) \o HandedOn(3))
        /\ (~v_call.deduplicate_issues /\ v_call.merge_overlapping) =>
               MergedList = _merge_overlapping_issues(HandedOn(1) \o HandedOn(2) \o HandedOn(3))

\* the first verifier raised, the second and the third returned issues, and
\* with both steps off all of them were returned
C21_Witness ==
    /\ v_call.done
    /\ v_call.kind = "composite"
    /\ ~v_call.deduplicate_issues /\ ~v_call.merge_overlapping
    /\ v_call.outcomes[1].raised
    /\ Len(v_call.outcomes[2].issues) >= 1
    /\ Len(v_call.outcomes[3].issues) >= 1
    /\ Len(MergedList) = Len(v_call.outcomes[2].issues) + Len(v_call.outcomes[3].issues)
    /\ MergedList[1].source_verifier = v_call.names[2]

\* LanguageToolVerifier > PlaceholderValidator > HeuristicVerifier > unknown
PriorityRank(source) ==
    CASE source = "LanguageToolVerifier" -> 4
      [] source = "PlaceholderValidator" -> 3
      [] source = "HeuristicVerifier" -> 2
      [] OTHER -> 1

\* C22: of a group of duplicates _deduplicate_issues keeps one issue, and
\* it is one whose (confidence, verifier priority) is maximal in the group,
\* the priority order being LanguageToolVerifier > PlaceholderValidator >
\* HeuristicVerifier > unknown source, wherever it stands in the group.
C22_BestOfGroupKept ==
    v_call.done /\ v_call.kind = "dedup" =>
        /\ Len(v_out.issues) = 1
        /\ \E k \in 1..Len(v_call.group) :
              /\ v_call.group[k].confidence = v_out.issues[1].confidence
              /\ v_call.group[k].source_verifier = v_out.issues[1].source_verifier
              /\ v_call.group[k].message = v_out.issues[1].message
        /\ \A k \in 1..Len(v_call.group) :
              \/ v_call.group[k].confidence < v_out.issues[1].confidence
              \/ /\ v_call.group[k].confidence = v_out.issues[1].confidence
                 /\ PriorityRank(v_call.group[k].source_verifier)
                       <= PriorityRank(v_out.issues[1].source_verifier)

\* heuristic, placeholder and grammar-backend duplicates of one confidence,
\* the grammar-backend one last: it is the one kept
C22_Witness ==
    /\ v_call.done
    /\ v_call.kind = "dedup"
    /\ Len(v_call.group) = 3
    /\ v_call.group[1].source_verifier = "HeuristicVerifier"
    /\ v_call.group[2].source_verifier = "PlaceholderValidator"
    /\ v_call.group[3].source_verifier = "LanguageToolVerifier"
    /\ \A k \in 1..3 : v_call.group[k].confidence = 80
    /\ Len(v_out.issues) = 1
    /\ v_out.issues[1].source_verifier = "LanguageToolVerifier"

\* C23: the issue _merge_issue_group makes of a group spans from the least
\* offset_start to the greatest offset_end of the group and has the
\* confidence, type, severity, rule and xpath of the first member whose
\* confidence is the highest of the group, so its offset_start is not
\* above its offset_end; and no issue CompositeVerifier.check returns has
\* offset_start above offset_end when none of the emitted issues has.
C23_MergedSpanAndBase ==
    /\ v_call.done /\ v_call.kind = "merge_group" =>
          LET g == v_call.group
              out == v_out.issues[1]
          IN  /\ \A k \in 1..Len(g) :
                    out.offset_start <= g[k].offset_start /\ g[k].offset_end <= out.offset_end
              /\ \E k \in 1..Len(g) : out.offset_start = g[k].offset_start
              /\ \E k \in 1..Len(g) : out.offset_end = g[k].offset_end
              /\ out.offset_start <= out.offset_end
              /\ \E k \in 1..Len(g) :
                    /\ \A j \in 1..Len(g) : g[j].confidence <= g[k].confidence
                    /\ \A j \in 1..(k - 1) : g[j].confidence < g[k].confidence
                    /\ out.confidence = g[k].confidence
                    /\ out.type = g[k].type
                    /\ out.severity = g[k].severity
                    /\ out.rule_id = g[k].rule_id
                    /\ out.xpath = g[k].xpath
    /\ v_call.done /\ v_call.kind = "composite" =>
          \A k \in 1..Len(v_out.issues) :
             v_out.issues[k].offset_start <= v_out.issues[k].offset_end

\* a group whose first member is neither the leftmost nor the most
\* confident: the merged issue starts at 5, ends at 30 and has rule R2
C23_Witness ==
    /\ v_call.done
    /\ v_call.kind = "merge_group"
    /\ Len(v_call.group) = 3
    /\ v_call.group[1].rule_id = "R1"
    /\ v_call.group[2].rule_id = "R2"
    /\ v_call.group[3].rule_id = "R4"
    /\ v_out.issues[1].offset_start = 5
    /\ v_out.issues[1].offset_end = 30
    /\ v_out.issues[1].rule_id = "R2"
    /\ v_out.issues[1].confidence = 90

\* the leak issues returned for language l
LeaksFor(l) == SelectSeq(v_out.issues, LAMBDA x : x.detected_lang = l)

\* C26: for a text of at least three words and a target among es, en, nl,
\* _detect_language_leakage returns, for each of es, en, nl other than the
\* target, one language_leak issue when the score of the language reaches
\* the threshold, with confidence min(0.95, 2 * score), and none
\* otherwise; none for the target; nothing else; and nothing at all for a
\* text of fewer than three words (nor for a target outside es, en, nl).
C26_OneLeakPerLanguageOverThreshold ==
    v_call.done /\ v_call.kind = "leakage" =>
        /\ \A k \in 1..Len(v_out.issues) :
              /\ v_out.issues[k].type = "language_leak"
              /\ v_out.issues[k].detected_lang \in {"es", "en", "nl"}
        /\ Len(v_call.text.words) < 3 => v_out.issues = <<>>
        /\ v_call.target_lang \notin {"es", "en", "nl"} => v_out.issues = <<>>
        /\ (Len(v_call.text.words) >= 3 /\ v_call.target_lang \in {"es", "en", "nl"}) =>
              \A l \in {"es", "en", "nl"} :
                 LET score == LeakScore(v_call.text, l)
                 IN  IF l # v_call.target_lang
                        /\ FracLeq(Frac(v_call.leak_threshold, 100), score)
                     THEN /\ Len(LeaksFor(l)) = 1
                          /\ IF FracLess(Frac(95, 100), Frac(2 * score.num, score.den))
                             THEN FracEq(LeaksFor(l)[1].confidence, Frac(95, 100))
                             ELSE FracEq(LeaksFor(l)[1].confidence,
                                         Frac(2 * score.num, score.den))
                     ELSE Len(LeaksFor(l)) = 0

\* the Dutch sentence with target es and the default threshold: one issue
\* for en and one for nl, none for es
C26_Witness ==
    /\ v_call.done
    /\ v_call.kind = "leakage"
    /\ Len(v_call.text.words) = 7
    /\ v_call.text.words[1] = "Dit"
    /\ v_call.target_lang = "es"
    /\ v_call.leak_threshold = leak_threshold
    /\ Len(v_out.issues) = 2
    /\ Len(LeaksFor("en")) = 1
    /\ Len(LeaksFor("nl")) = 1
    /\ FracLess(LeaksFor("nl")[1].confidence, Frac(95, 100))
    /\ Len(LeaksFor("es")) = 0

\* the call of the example: the English sentence, target es, default threshold
HelloCall ==
    /\ v_call.done
    /\ v_call.kind = "leakage"
    /\ v_call.text = HelloText
    /\ v_call.target_lang = "es"
    /\ v_call.leak_threshold = leak_threshold

\* C11 as stated: on "Hello world, this is clearly English content" with
\* target es and the default threshold 0.08 the leak detector emits no
\* language_leak issue.
C11_NoLeakOnEnglishText ==
    HelloCall => Len(IssuesOfType(v_out.issues, "language_leak")) = 0

\* C11 amended: on that text, with target es and the default threshold, the
\* leak detector emits exactly one issue: a language_leak issue for English
\* (rule LANGUAGE_LEAK_EN, detected_lang en, the word "this" as evidence,
\* confidence 2 * 0.3522... = 0.7045..., span the whole text) and none for
\* Dutch, whose score 0.0714... is below the threshold.
C11_EnglishLeakReported ==
    HelloCall =>
        /\ Len(v_out.issues) = 1
        /\ v_out.issues[1].type = "language_leak"
        /\ v_out.issues[1].rule_id = "LANGUAGE_LEAK_EN"
        /\ v_out.issues[1].detected_lang = "en"
        /\ v_out.issues[1].message = {<<"Possible words detected", "EN", <<"this">>, 0>>}
        /\ v_out.issues[1].offset_start = 0 /\ v_out.issues[1].offset_end = 44
        /\ FracEq(v_out.issues[1].confidence, Frac(2 * 31, 88))
        /\ FracEq(LeakScore(HelloText, "nl"), Frac(1, 14))

\* the example call was made and returned its English leak issue
C11_Witness ==
    /\ HelloCall
    /\ ~v_out.raised
    /\ Len(IssuesOfType(v_out.issues, "language_leak")) = 1


(***************************************************************************)
(* overall_score as issues are added to a page                             *)
(***************************************************************************)
MaxStatBlocks == 3      \* a page has at most this many blocks
MaxStatIssues == 4      \* and at most this many issues

InitStats ==
    /\ IdleAnalyzer
    /\ IdleVerify
    /\ IdleDetect
    /\ IdleRetry
    /\ IdleScan
    /\ s_issues = <<>>
    /\ s_blocks \in 0..MaxStatBlocks
    /\ s_prev = [num |-> 1, den |-> 1]
    /\ s_score = _calculate_stats(s_blocks, <<>>, [l \in LangCodes |-> 0], 0,
                                  "es").overall_score
    /\ s_last = "none"

\* one more issue of severity sev in the list given to _calculate_stats
AddIssue(sev) ==
    /\ Len(s_issues) < MaxStatIssues
    /\ s_issues' = Append(s_issues, NewIssue("grammar", sev, "m", {}, 0, 0, 0, 90, "None"))
    /\ s_prev' = s_score
    /\ s_score' = _calculate_stats(s_blocks, s_issues', [l \in LangCodes |-> 0], 0,
                                   "es").overall_score
    /\ s_last' = sev
    /\ UNCHANGED s_blocks
    /\ UNCHANGED <<analyzerVars, verifyVars, detectVars, retryVars, scanVars>>

NextStats == \E sev \in Severities : AddIssue(sev)

SpecStats == InitStats /\ [][NextStats]_vars

\* max(0, a - b)
FracMinus(a, b) ==
    IF FracLess(a, b) THEN Frac(0, 1)
    ELSE Frac(a.num * b.den - b.num * a.den, a.den * b.den)

\* C9 as stated: one more critical issue strictly decreases overall_score,
\* by exactly 0.5 or down to 0.
C9_CriticalCostsHalf ==
    s_last = "critical" =>
        /\ FracLess(s_score, s_prev)
        /\ FracEq(s_score, FracMinus(s_prev, Frac(1, 2)))

\* C9 amended: one more critical issue lowers overall_score by 0.5 divided
\* by max(1, number of blocks), or down to 0; the decrease is strict
\* exactly when the score was above 0.
C9_CriticalCostsHalfPerBlock ==
    s_last = "critical" =>
        /\ FracEq(s_score, FracMinus(s_prev, Frac(1, 2 * Max(1, s_blocks))))
        /\ FracLess(Frac(0, 1), s_prev) => FracLess(s_score, s_prev)
        /\ FracEq(s_prev, Frac(0, 1)) => FracEq(s_score, Frac(0, 1))

\* on a page of several blocks a critical issue cost less than 0.5
C9_Witness ==
    /\ s_last = "critical"
    /\ s_blocks >= 2
    /\ FracLess(Frac(0, 1), s_score)
    /\ FracLess(FracMinus(s_prev, Frac(1, 2)), s_score)

\* 0.5 * critical + 0.2 * error + 0.05 * warning of s_issues, in twentieths
WeightedCount ==
    10 * CountSeverity(s_issues, "critical") + 4 * CountSeverity(s_issues, "error")
    + CountSeverity(s_issues, "warning")

ScoreFacts ==
    /\ FracLeq(Frac(0, 1), s_score) /\ FracLeq(s_score, Frac(1, 1))
    /\ s_last = "info" => FracEq(s_score, s_prev)
    /\ FracEq(s_score, Frac(1, 1)) <=> WeightedCount = 0

\* C20 as stated: overall_score lies in [0,1] and equals
\* max(0, 1 - min(penalty, 1)), the penalty not being divided by the number
\* of blocks; info issues do not change it; it is 1.0 exactly when there is
\* no critical, error or warning issue.
C20_ScoreFromPenalty ==
    /\ ScoreFacts
    /\ FracEq(s_score, Frac(20 - Min(WeightedCount, 20), 20))

\* C20 amended: overall_score lies in [0,1] and equals
\* max(0, 1 - min(penalty / max(1, number of blocks), 1)), for every page:
\* the division is not configurable; info issues do not change it; it is
\* 1.0 exactly when there is no critical, error or warning issue.
C20_ScoreFromPenaltyPerBlock ==
    /\ ScoreFacts
    /\ FracEq(s_score,
              Frac(20 * Max(1, s_blocks) - Min(WeightedCount, 20 * Max(1, s_blocks)),
                   20 * Max(1, s_blocks)))

\* a page of several blocks with an error issue, to which an info issue was
\* added: the score stayed where it was, above 1 - 0.2
C20_Witness ==
    /\ s_last = "info"
    /\ s_blocks >= 2
    /\ CountSeverity(s_issues, "error") = 1
    /\ WeightedCount = 4
    /\ FracEq(s_score, s_prev)
    /\ FracLess(Frac(4, 5), s_score)
    /\ FracLess(s_score, Frac(1, 1))

(***************************************************************************)
(* BaseFetcher._retry_request (core/fetchers/base.py).  Times are seconds. *)
(***************************************************************************)
MaxRetriesConfig == 4   \* self.max_retries is configured between 0 and this
MaxAttemptTime == 30    \* one invocation of func takes at most this long

max_total_time == 30    \* getattr(self, 'max_total_time', 30)
RetryCap == 3           \* min(self.max_retries, 3)
BackoffCap == 3         \* min(2 ** attempt, 3)

\* actual_retries
ActualRetriesUncapped(max_retries, fail_fast) == IF fail_fast THEN 0 ELSE max_retries

ActualRetries(max_retries, fail_fast) ==
    IF fail_fast THEN 0 ELSE Min(max_retries, RetryCap)

\* wait_time
BackoffWait(attempt) == Min(2 ^ attempt, BackoffCap)

\* what func does: it returns, or raises ConnectTimeout / ReadTimeout, a
\* ConnectionError, an HTTPError with a 4xx response, with a 5xx response,
\* without a response, or any other exception
FuncOutcomes ==
    {"ok", "Timeout", "ConnectionError", "HTTPClientError", "HTTPServerError",
     "HTTPErrorNoResponse", "Exception"}

\* the except clauses: "raise" leaves with FetchError, "retry" keeps the
\* exception as last_exception and goes on
OnRequestError(outcome, fail_fast) ==
    CASE outcome \in {"Timeout", "ConnectionError"} ->
           IF fail_fast THEN "raise" ELSE "retry"
      [] outcome = "HTTPClientError" -> "raise"
      [] OTHER -> "retry"

AttemptDurations == {0, 1, MaxAttemptTime \div 2, MaxAttemptTime}

\* getattr(self, 'fail_fast', False): no fetcher class and no caller sets the
\* attribute, so the default is what the call reads
FailFastValues == {FALSE}

RetryAtRest == r_pc \in {"idle", "returned", "raised"}

\* a call of _retry_request: the locals before the loop
RetryRequest ==
    /\ RetryAtRest
    /\ \E max_retries \in 0..MaxRetriesConfig, fail_fast \in FailFastValues :
          r_cfg' = [max_retries |-> max_retries, fail_fast |-> fail_fast]
    /\ r_pc' = "check"
    /\ r_attempt' = 0
    /\ r_calls' = 0
    /\ r_time' = 0
    /\ r_last' = "none"
    /\ r_waits' = <<>>
    /\ r_out' = "none"
    /\ UNCHANGED <<analyzerVars, verifyVars, detectVars, statsVars, scanVars>>

\* top of the loop body: the absolute timeout check
CheckBudget ==
    /\ r_pc = "check"
    /\ IF r_time > max_total_time
       THEN r_pc' = "raised" /\ r_out' = "FetchError"
       ELSE r_pc' = "call" /\ UNCHANGED r_out
    /\ UNCHANGED <<r_cfg, r_attempt, r_calls, r_time, r_last, r_waits>>
    /\ UNCHANGED <<analyzerVars, verifyVars, detectVars, statsVars, scanVars>>

\* "return func(*args, **kwargs)" and the except clauses; after the last
\* attempt the loop ends and FetchError("Failed after ...") is raised
Attempt ==
    /\ r_pc = "call"
    /\ \E outcome \in FuncOutcomes, d \in AttemptDurations :
          /\ r_calls' = r_calls + 1
          /\ r_time' = r_time + d
          /\ r_last' = outcome
          /\ IF outcome = "ok"
             THEN r_pc' = "returned" /\ r_out' = "value"
             ELSE IF OnRequestError(outcome, r_cfg.fail_fast) = "raise"
             THEN r_pc' = "raised" /\ r_out' = "FetchError"
             ELSE IF r_attempt < ActualRetries(r_cfg.max_retries, r_cfg.fail_fast)
             THEN r_pc' = "sleep" /\ UNCHANGED r_out
             ELSE r_pc' = "raised" /\ r_out' = "FetchError"
    /\ UNCHANGED <<r_cfg, r_attempt, r_waits>>
    /\ UNCHANGED <<analyzerVars, verifyVars, detectVars, statsVars, scanVars>>

\* time.sleep(wait_time), then the next attempt
Sleep ==
    /\ r_pc = "sleep"
    /\ r_time' = r_time + BackoffWait(r_attempt)
    /\ r_waits' = Append(r_waits, BackoffWait(r_attempt))
    /\ r_attempt' = r_attempt + 1
    /\ r_pc' = "check"
    /\ UNCHANGED <<r_cfg, r_calls, r_last, r_out>>
    /\ UNCHANGED <<analyzerVars, verifyVars, detectVars, statsVars, scanVars>>

InitRetry == IdleAnalyzer /\ IdleVerify /\ IdleDetect /\ IdleStats /\ IdleRetry /\ IdleScan

NextRetry == RetryRequest \/ CheckBudget \/ Attempt \/ Sleep

\* the loop is sequential code: a step that can be taken is taken
SpecRetry == InitRetry /\ [][NextRetry]_vars /\ WF_vars(NextRetry)

Retryable ==
    {"Timeout", "ConnectionError", "HTTPServerError", "HTTPErrorNoResponse", "Exception"}

RetryLimits ==
    /\ r_calls <= Min(r_cfg.max_retries, 3) + 1
    /\ Len(r_waits) <= r_calls
    /\ \A k \in 1..Len(r_waits) : r_waits[k] = Min(2 ^ (k - 1), 3)

RetryEnds ==
    /\ r_pc = "returned" => r_out = "value" /\ r_last = "ok"
    /\ r_pc = "raised" => r_out = "FetchError"
    /\ r_out # "none" => r_pc \in {"returned", "raised"}
    /\ r_last = "HTTPClientError" => r_pc = "raised" /\ Len(r_waits) = r_calls - 1

\* C14: a 4xx error ends the call at once with FetchError, with no sleep and
\* no further attempt; every other failure is followed by the backoff sleep
\* and the next attempt while attempts are left; func is
\* invoked at most min(max_retries, 3) + 1 times; the k-th sleep lasts
\* min(2^(k-1), 3) seconds; every call ends, by returning the value of func
\* or by raising FetchError.
C14_BoundedRetry ==
    /\ [](RetryLimits /\ RetryEnds)
    /\ [][/\ (r_pc = "call" /\ r_last' = "HTTPClientError") =>
                r_pc' = "raised" /\ r_out' = "FetchError" /\ r_waits' = r_waits
          /\ (r_pc = "call" /\ r_last' \in Retryable
                 /\ r_attempt < Min(r_cfg.max_retries, 3)) =>
                r_pc' = "sleep" /\ r_out' = "none"
          /\ r_pc = "sleep" =>
                r_pc' = "check" /\ r_calls' = r_calls /\ r_attempt' = r_attempt + 1
          /\ (r_pc = "check" /\ r_time <= max_total_time) => r_pc' = "call"]_vars
    /\ (r_pc \in {"check", "call", "sleep"}) ~> (r_pc \in {"returned", "raised"})

\* func was invoked four times and failed each time: three sleeps of 1, 2
\* and 3 seconds, then FetchError
C14_Witness ==
    /\ r_pc = "raised"
    /\ r_cfg.max_retries > 3
    /\ r_calls = 4
    /\ r_waits = <<1, 2, 3>>
    /\ r_last \in Retryable
    /\ r_out = "FetchError"

\* C15: the time spent inside a call of _retry_request never exceeds
\* max_total_time.
C15_WithinBudget == r_time <= max_total_time

(***************************************************************************)
(* The URL loop of the scan command (cli/main.py)                          *)
(***************************************************************************)
MaxUrls == 3            \* urls_to_process has at most this many URLs

ScanUrls == {"https://a.example/", "https://b.example/"}
ScanLang == "es"        \* the --lang option

\* what analyzer.analyze_url does for a URL: it returns a result without
\* issues, with a language_leak issue, or the result of one of its except
\* clauses (a page-level failure), or it raises
AnalyzeOutcomes == {"clean", "issues", "failed", "raised"}

\* the PageResult analyze_url returns
AnalyzedResult(u, outcome) ==
    CASE outcome = "clean" -> NewPageResult(u, ScanLang)
      [] outcome = "issues" ->
           [NewPageResult(u, ScanLang) EXCEPT
               !.issues = <<LeakIssue(1, Block(PlainText, Det("en", 90), FALSE),
                                      u, ScanLang)>>]
      [] outcome = "failed" ->
           [NewPageResult(u, ScanLang) EXCEPT
               !.issues = HandlerIssues(<<>>, ErrorIssue("fetch", u))]

\* the error_result of the except clause of the loop
ErrorResult(u) == [NewPageResult(u, ScanLang) EXCEPT !.issues = <<>>]

\* one pass of the loop body for current_url
ScanBody(results, current_url, outcome) ==
    IF outcome = "raised" THEN Append(results, ErrorResult(current_url))
    ELSE Append(results, AnalyzedResult(current_url, outcome))

\* scan up to the loop: analyzer.initialize() (a failure exits with code
\* 1), urls_to_process (empty exits with code 1, after cleanup)
Scan ==
    /\ c_pc = "idle"
    /\ \E n \in 0..MaxUrls, init_ok \in BOOLEAN :
       \E urls \in [1..n -> ScanUrls], outcomes \in [1..n -> AnalyzeOutcomes] :
          /\ c_urls' = urls
          /\ c_outcomes' = outcomes
          /\ c_pc' = IF ~init_ok \/ n = 0 THEN "exit" ELSE "loop"
    /\ c_idx' = 0
    /\ c_results' = <<>>
    /\ UNCHANGED <<analyzerVars, verifyVars, detectVars, statsVars, retryVars>>

\* one iteration of "for current_url in urls_to_process"
ScanUrl ==
    /\ c_pc = "loop"
    /\ c_idx < Len(c_urls)
    /\ c_results' = ScanBody(c_results, c_urls[c_idx + 1], c_outcomes[c_idx + 1])
    /\ c_idx' = c_idx + 1
    /\ UNCHANGED <<c_pc, c_urls, c_outcomes>>
    /\ UNCHANGED <<analyzerVars, verifyVars, detectVars, statsVars, retryVars>>

\* after the loop: BatchResult(results=results), export, exit code, cleanup
ScanFinish ==
    /\ c_pc = "loop"
    /\ c_idx = Len(c_urls)
    /\ c_pc' = "finished"
    /\ UNCHANGED <<c_urls, c_outcomes, c_idx, c_results>>
    /\ UNCHANGED <<analyzerVars, verifyVars, detectVars, statsVars, retryVars>>

InitScan == IdleAnalyzer /\ IdleVerify /\ IdleDetect /\ IdleStats /\ IdleRetry /\ IdleScan

NextScan == Scan \/ ScanUrl \/ ScanFinish

SpecScan == InitScan /\ [][NextScan]_vars

\* the result says that the analysis of its URL failed
MarksFailure(r) == \E k \in 1..Len(r.issues) : r.issues[k].severity = "critical"

\* C16: after every pass of the loop there is exactly one result per URL
\* gone through, in input order; the loop goes through every URL whatever
\* failed before; the result of a URL whose analysis failed marks the
\* failure.
C16_OneResultPerUrl ==
    /\ Len(c_results) = c_idx
    /\ \A k \in 1..Len(c_results) : c_results[k].url = c_urls[k]
    /\ c_pc = "finished" => Len(c_results) = Len(c_urls)
    /\ \A k \in 1..Len(c_results) :
          c_outcomes[k] \in {"failed", "raised"} => MarksFailure(c_results[k])

====
